---- MODULE Spec2Model ----
(***************************************************************************)
(* Model of the two shelf-packing atlas allocators of etagere:             *)
(*   - BucketedAtlasAllocator (src/src/bucketed.rs)                        *)
(*   - allocator2::AtlasAllocator (src/src/allocator2.rs)                  *)
(* Vectors are modelled as sequences: Rust index i is element i + 1.       *)
(* u16 arithmetic is modelled with its width: a debug build panics on      *)
(* overflow and on a failed debug_assert, a release build wraps (% 2^16)   *)
(* and skips debug_assert.                                                 *)
(***************************************************************************)
EXTENDS Integers, Sequences, FiniteSets, TLC

VARIABLES
    engine,             \* "bucketed" | "peritem": which allocator type the instance is
    debug_assertions,   \* build profile: TRUE = debug build, FALSE = release build
    size,               \* the Size given to the constructor (caller's orientation)
    options,            \* the AllocatorOptions given to the constructor
    atlas,              \* the allocator instance (all of its fields)
    allocations,        \* caller side: the live Allocations (id, rectangle)
    last,               \* caller side: the last call and what it returned
    requests,           \* caller side: the Sizes the caller asks for
    panicked,           \* "" or the assertion / panic that ended the program
    ncalls,             \* number of successful allocate calls so far
    stale,              \* caller side: deallocated Allocations the caller still holds
    ids                 \* caller side of a scripted run: the allocate results, in call order

vars == <<engine, debug_assertions, size, options, atlas, allocations, last, requests,
          panicked, ncalls, stale, ids>>

----------------------------------------------------------------------------
(* Program constants *)

U16_MAX == 65535
U16_MOD == 65536
INVALID == 65535
NO_SHELF == -1
BIN_MASK == 4095
ITEM_MASK_BITS == 4095
GEN_MOD == 256
MAX_ITEMS_PER_BIN == 4095
MAX_BIN_COUNT == 4095
MAX_SHELF_COUNT == 65535
SHELF_SPLIT_THRESHOLD == 8
ITEM_SPLIT_THRESHOLD == 8

----------------------------------------------------------------------------
(* Shared helpers *)

Min(a, b) == IF a < b THEN a ELSE b
Max(a, b) == IF a > b THEN a ELSE b

\* Rust's `as u16` / wrapping arithmetic of a release build
Wrap16(n) == n % U16_MOD

size2(w, h) == [width |-> w, height |-> h]
point2(x, y) == [x |-> x, y |-> y]

\* euclid Size2D::is_empty
SizeIsEmpty(s) == s.width <= 0 \/ s.height <= 0

\* adjust_size: round size up to a multiple of alignment
adjust_size(alignment, sz) ==
    LET rem == sz % alignment
    IN  IF rem > 0 THEN sz + alignment - rem ELSE sz

convert_coordinates(flip_xy, x, y) == IF flip_xy THEN <<y, x>> ELSE <<x, y>>

\* shelf_height before truncation to u16
shelf_height_unbounded(sz) ==
    LET alignment == IF sz <= 31 THEN 8
                     ELSE IF sz <= 127 THEN 16
                     ELSE IF sz <= 511 THEN 32
                     ELSE 64
        rem == sz % alignment
    IN  IF rem > 0 THEN sz + alignment - rem ELSE sz

\* shelf_height as a release build computes it (u16 wrap)
shelf_height(sz) == Wrap16(shelf_height_unbounded(sz))

\* `size += alignment - rem` overflows u16 (panic in a debug build)
shelf_height_overflows(sz) == shelf_height_unbounded(sz) > U16_MAX

\* Option<Allocation>: <<>> is None, <<a>> is Some(a)
None == <<>>
Some(a) == <<a>>

MkRect(min_x, min_y, max_x, max_y) ==
    [min |-> point2(min_x, min_y), max |-> point2(max_x, max_y)]

\* result of a call: new allocator state, returned value, panic message ("" = none)
Ret(a, res, panic) == [atlas |-> a, res |-> res, panic |-> panic]

----------------------------------------------------------------------------
(* BucketedAtlasAllocator (src/src/bucketed.rs)                            *)

\* the assertions of BucketedAtlasAllocator::with_options
B_with_options_asserts(sz, opts) ==
    sz.width < U16_MAX /\ sz.height < U16_MAX

B_with_options(sz, opts) ==
    LET width  == IF opts.vertical_shelves THEN Wrap16(sz.height) ELSE Wrap16(sz.width)
        height == IF opts.vertical_shelves THEN Wrap16(sz.width) ELSE Wrap16(sz.height)
        shelf_alignment == IF opts.vertical_shelves THEN Wrap16(opts.alignment.height)
                           ELSE Wrap16(opts.alignment.width)
        column_width0 == width \div Wrap16(opts.num_columns)
        column_width == column_width0 - (column_width0 % shelf_alignment)
    IN  [ shelves |-> <<>>,
          bins |-> <<>>,
          available_height |-> height,
          width |-> width,
          height |-> height,
          first_unallocated_bin |-> INVALID,
          flip_xy |-> opts.vertical_shelves,
          alignment |-> opts.alignment,
          current_column |-> 0,
          num_columns |-> Wrap16(opts.num_columns),
          column_width |-> column_width ]

B_clear(b) ==
    [b EXCEPT !.shelves = <<>>, !.bins = <<>>, !.first_unallocated_bin = INVALID]

B_size(b) ==
    LET wh == convert_coordinates(b.flip_xy, b.width, b.height)
    IN  size2(wh[1], wh[2])

B_is_empty(b) == Len(b.shelves) = 0

\* a bin walk that looks at the first bin of the shelf only
B_shelf_bins_empty_first_only(b, bin_index) ==
    IF bin_index = INVALID THEN TRUE
    ELSE b.bins[bin_index + 1].refcount = 0

RECURSIVE B_shelf_bins_empty(_, _)
\* the bin walk of shelf_is_empty / cleanup_shelves: no bin from bin_index on has refcount != 0
B_shelf_bins_empty(b, bin_index) ==
    IF bin_index = INVALID THEN TRUE
    ELSE LET bin == b.bins[bin_index + 1]
         IN  IF bin.refcount # 0 THEN FALSE
             ELSE B_shelf_bins_empty(b, bin.next)

B_shelf_is_empty(b, idx) == B_shelf_bins_empty(b, b.shelves[idx + 1].first_bin)

B_num_bins(b, width, height) ==
    LET q == b.column_width \div Max(width, height)
        n == IF q <= 4 THEN 1
             ELSE IF q <= 15 THEN 2
             ELSE IF q <= 64 THEN 4
             ELSE IF q <= 256 THEN 8
             ELSE 16
    IN  Min(n, Wrap16(MAX_BIN_COUNT - Len(b.bins)))

RECURSIVE B_init_bins_same_generation(_, _, _, _, _, _)
\* a bin loop that reuses a slot of the free list without a new generation
B_init_bins_same_generation(b, remaining, x, bin_next, bin_width, shelf_index) ==
    IF remaining = 0 THEN <<b, bin_next>>
    ELSE
        LET bin == [ next |-> bin_next,
                     x |-> x,
                     free_space |-> bin_width,
                     refcount |-> 0,
                     shelf |-> Wrap16(shelf_index),
                     generation |-> 0,
                     item_count |-> 0 ]
            free == b.first_unallocated_bin
        IN  IF free = INVALID
            THEN B_init_bins_same_generation([b EXCEPT !.bins = Append(@, bin)],
                             remaining - 1, Wrap16(x + bin_width),
                             Wrap16(Len(b.bins)), bin_width, shelf_index)
            ELSE LET old == b.bins[free + 1]
                     reused == [bin EXCEPT !.generation = old.generation]
                 IN  B_init_bins_same_generation([b EXCEPT !.first_unallocated_bin = old.next,
                                           !.bins[free + 1] = reused],
                                 remaining - 1, Wrap16(x + bin_width),
                                 free, bin_width, shelf_index)

RECURSIVE B_init_bins(_, _, _, _, _, _)
\* the `for _ in 0..num_bins` loop of add_shelf; returns <<allocator, bin_next>>
B_init_bins(b, remaining, x, bin_next, bin_width, shelf_index) ==
    IF remaining = 0 THEN <<b, bin_next>>
    ELSE
        LET bin == [ next |-> bin_next,
                     x |-> x,
                     free_space |-> bin_width,
                     refcount |-> 0,
                     shelf |-> Wrap16(shelf_index),
                     generation |-> 0,
                     item_count |-> 0 ]
            free == b.first_unallocated_bin
        IN  IF free = INVALID
            THEN B_init_bins([b EXCEPT !.bins = Append(@, bin)],
                             remaining - 1, Wrap16(x + bin_width),
                             Wrap16(Len(b.bins)), bin_width, shelf_index)
            ELSE LET old == b.bins[free + 1]
                     reused == [bin EXCEPT !.generation = (old.generation + 1) % GEN_MOD]
                 IN  B_init_bins([b EXCEPT !.first_unallocated_bin = old.next,
                                           !.bins[free + 1] = reused],
                                 remaining - 1, Wrap16(x + bin_width),
                                 free, bin_width, shelf_index)

\* add_shelf from `let mut bin_width` on (lines 273-319), given its height and
\* num_bins; returns [atlas, shelf_index, panic]
B_shelf_with_bins(b, height, num_bins, dbg) ==
    IF num_bins = 0
    THEN [atlas |-> b, shelf_index |-> NO_SHELF, panic |-> "attempt to divide by zero"]
    ELSE IF dbg /\ b.height < b.available_height
    THEN [atlas |-> b, shelf_index |-> NO_SHELF, panic |-> "attempt to subtract with overflow"]
    ELSE
    LET bin_width0 == b.column_width \div num_bins
        bin_width == bin_width0 - (bin_width0 % Wrap16(b.alignment.width))
        y == Wrap16(b.height - b.available_height)
        shelf_index == Len(b.shelves)
        x == Wrap16(b.current_column * b.column_width)
        filled == B_init_bins([b EXCEPT !.available_height = @ - height],
                              num_bins, x, INVALID, bin_width, shelf_index)
        shelf == [ x |-> x, y |-> y, height |-> height,
                   bin_width |-> bin_width, first_bin |-> filled[2] ]
    IN  [atlas |-> [filled[1] EXCEPT !.shelves = Append(@, shelf)],
         shelf_index |-> shelf_index, panic |-> ""]

\* add_shelf from `let num_bins` on (lines 272-319), given the shelf's height
B_shelf_of_height(b, width, height, dbg) ==
    IF Max(width, height) = 0
    THEN [atlas |-> b, shelf_index |-> NO_SHELF, panic |-> "attempt to divide by zero"]
    ELSE B_shelf_with_bins(b, height, B_num_bins(b, width, height), dbg)

\* add_shelf from `let height = shelf_height(height).min(...)` on (lines 271-319);
\* returns [atlas, shelf_index, panic]
B_push_shelf(b, width, height0, dbg) ==
    IF dbg /\ shelf_height_overflows(height0)
    THEN [atlas |-> b, shelf_index |-> NO_SHELF, panic |-> "attempt to add with overflow"]
    ELSE B_shelf_of_height(b, width, Min(shelf_height(height0), b.available_height), dbg)

\* an add_shelf that never closes the current column with a filler shelf
B_fill_column_skipped(b, height, dbg) ==
    [atlas |-> b, shelf_index |-> NO_SHELF, panic |-> ""]

\* the filler shelf of add_shelf (lines 258-264): closes the current column when
\* the new shelf does not fit in it and another column is left
B_fill_column(b, height, dbg) ==
    IF b.available_height # 0 /\ b.available_height < height
       /\ b.current_column + 1 < b.num_columns
    THEN B_push_shelf(b, 0, b.available_height, dbg)
    ELSE [atlas |-> b, shelf_index |-> NO_SHELF, panic |-> ""]

\* a step that makes room again without moving to the next column
B_next_column_staying(b, can_add_column) ==
    IF b.available_height = 0 /\ can_add_column
    THEN [b EXCEPT !.available_height = b.height]
    ELSE b

\* the step to the next column of add_shelf (lines 266-269)
B_next_column(b, can_add_column) ==
    IF b.available_height = 0 /\ can_add_column
    THEN [b EXCEPT !.current_column = @ + 1, !.available_height = b.height]
    ELSE b

\* add_shelf after its filler shelf (lines 263-319); filler = [atlas, shelf_index, panic]
B_add_shelf_after(filler, can_add_column, width, height, dbg) ==
    IF filler.panic # "" THEN filler
    ELSE IF dbg /\ filler.shelf_index # NO_SHELF /\ filler.atlas.available_height # 0
    THEN [atlas |-> filler.atlas, shelf_index |-> NO_SHELF,
          panic |-> "debug_assert_eq!(self.available_height, 0)"]
    ELSE B_push_shelf(B_next_column(filler.atlas, can_add_column), width, height, dbg)

\* add_shelf; returns [atlas, shelf_index, panic]
B_add_shelf(b, width, height, dbg) ==
    B_add_shelf_after(B_fill_column(b, height, dbg),
                      b.current_column + 1 < b.num_columns, width, height, dbg)

\* result of the coalesce scan: "found" with the range [start, last] and the height,
\* "none", or "oob" when shelves[shelf_index + i] is read past the end
RECURSIVE B_coalesce_inner(_, _, _, _, _, _)
RECURSIVE B_coalesce_scan(_, _, _, _)

\* the `for i in 1..3` loop of coalesce_shelves
B_coalesce_inner(b, shelf_index, i, coalesced_height, w, h) ==
    LET len == Len(b.shelves)
    IN  IF i >= 3 THEN B_coalesce_scan(b, shelf_index + 1, w, h)
        ELSE IF shelf_index + i >= len
        THEN [kind |-> "oob", start |-> shelf_index, last |-> shelf_index + i, height |-> 0]
        ELSE IF b.shelves[shelf_index + i + 1].x # b.shelves[shelf_index + 1].x
        THEN B_coalesce_scan(b, shelf_index + 1, w, h)
        ELSE IF ~B_shelf_is_empty(b, shelf_index + i)
        THEN B_coalesce_scan(b, shelf_index + 1, w, h)
        ELSE LET ch == coalesced_height + b.shelves[shelf_index + i + 1].height
             IN  IF ch >= h
                 THEN [kind |-> "found", start |-> shelf_index, last |-> shelf_index + i,
                       height |-> ch]
                 ELSE B_coalesce_inner(b, shelf_index, i + 1, ch, w, h)

\* the `'outer: for shelf_index in 0..len` loop of coalesce_shelves
B_coalesce_scan(b, shelf_index, w, h) ==
    IF shelf_index >= Len(b.shelves)
    THEN [kind |-> "none", start |-> 0, last |-> 0, height |-> 0]
    ELSE IF b.shelves[shelf_index + 1].bin_width < w
    THEN B_coalesce_scan(b, shelf_index + 1, w, h)
    ELSE IF ~B_shelf_is_empty(b, shelf_index)
    THEN B_coalesce_scan(b, shelf_index + 1, w, h)
    ELSE B_coalesce_inner(b, shelf_index, 1, b.shelves[shelf_index + 1].height, w, h)

RECURSIVE B_squash(_, _, _, _, _)
\* the height updates of coalesce_shelves: shelf `start` takes the coalesced height,
\* shelves start+1 ..= last_idx are squashed to 0 (k is the 1-based position)
B_squash(shelves, k, start, last_idx, height) ==
    IF k > Len(shelves) THEN <<>>
    ELSE LET s == shelves[k]
             s1 == IF k - 1 > start /\ k - 1 <= last_idx THEN [s EXCEPT !.height = 0]
                   ELSE IF k - 1 = start THEN [s EXCEPT !.height = height]
                   ELSE s
         IN  <<s1>> \o B_squash(shelves, k + 1, start, last_idx, height)

\* coalesce_shelves that squashes the shelves after the first one before it
\* knows that a run is high enough
B_coalesce_shelves_eager(b, w, h) ==
    LET r == B_coalesce_scan(b, 0, w, h)
    IN  IF r.kind = "oob"
        THEN [atlas |-> b, shelf |-> 0, bin |-> INVALID, panic |-> "index out of bounds"]
        ELSE IF r.kind = "found"
        THEN [atlas |-> [b EXCEPT !.shelves = B_squash(b.shelves, 1, r.start, r.last, r.height)],
              shelf |-> r.start, bin |-> b.shelves[r.start + 1].first_bin, panic |-> ""]
        ELSE [atlas |-> [b EXCEPT !.shelves = B_squash(b.shelves, 1, 0, Len(b.shelves) - 1,
                                                        b.shelves[1].height)],
              shelf |-> 0, bin |-> INVALID, panic |-> ""]

\* coalesce_shelves; returns [atlas, shelf, bin, panic]
B_coalesce_shelves(b, w, h) ==
    LET r == B_coalesce_scan(b, 0, w, h)
    IN  IF r.kind = "oob"
        THEN [atlas |-> b, shelf |-> 0, bin |-> INVALID, panic |-> "index out of bounds"]
        ELSE IF r.kind = "found"
        THEN LET shelves1 == B_squash(b.shelves, 1, r.start, r.last, r.height)
             IN  [atlas |-> [b EXCEPT !.shelves = shelves1],
                  shelf |-> r.start, bin |-> b.shelves[r.start + 1].first_bin, panic |-> ""]
        ELSE [atlas |-> b, shelf |-> 0, bin |-> INVALID, panic |-> ""]

\* an AllocId that leaves the item counter out
B_AllocId_without_item(bin_index, item_count, generation) ==
    [bin |-> bin_index % (BIN_MASK + 1),
     item |-> 0,
     generation |-> generation]

\* AllocId of the bucketed engine: the three bit fields of the u32
B_AllocId(bin_index, item_count, generation) ==
    [bin |-> bin_index % (BIN_MASK + 1),
     item |-> item_count % (ITEM_MASK_BITS + 1),
     generation |-> generation]

\* alloc_from_bin; returns Ret(atlas, Option<Allocation>, panic)
B_alloc_from_bin(b, shelf_index, bin_index, width, dbg) ==
    LET shelf == b.shelves[shelf_index + 1]
        bin == b.bins[bin_index + 1]
        min_x_unb == bin.x + shelf.bin_width - bin.free_space
        min_x == Wrap16(min_x_unb)
        min_y == shelf.y
        max_x_unb == min_x + width
        max_x == Wrap16(max_x_unb)
        max_y_unb == min_y + shelf.height
        max_y == Wrap16(max_y_unb)
        overflow == \/ bin.x + shelf.bin_width > U16_MAX
                    \/ min_x_unb < 0
                    \/ max_x_unb > U16_MAX
                    \/ max_y_unb > U16_MAX
                    \/ bin.free_space < width
                    \/ bin.refcount + 1 > U16_MAX
                    \/ bin.item_count + 1 > U16_MAX
        lo == convert_coordinates(b.flip_xy, min_x, min_y)
        hi == convert_coordinates(b.flip_xy, max_x, max_y)
        bin1 == [bin EXCEPT !.free_space = Wrap16(@ - width),
                            !.refcount = Wrap16(@ + 1),
                            !.item_count = Wrap16(@ + 1)]
        id == B_AllocId(bin_index, bin1.item_count, bin1.generation)
    IN  IF dbg /\ bin.free_space < width
        THEN Ret(b, None, "debug_assert!(bin.free_space >= width)")
        ELSE IF dbg /\ overflow
        THEN Ret(b, None, "arithmetic overflow")
        ELSE Ret([b EXCEPT !.bins[bin_index + 1] = bin1],
                 Some([id |-> id, rectangle |-> MkRect(lo[1], lo[2], hi[1], hi[2])]),
                 "")

RECURSIVE B_find_bin(_, _, _, _, _)
\* the `while bin_index != BinIndex::INVALID` loop of allocate; <<kind, bin_index>>
B_find_bin(b, bin_index, w, y_waste, best_waste) ==
    IF bin_index = INVALID THEN <<"none", INVALID>>
    ELSE LET bin == b.bins[bin_index + 1]
         IN  IF bin.free_space >= w /\ bin.item_count < MAX_ITEMS_PER_BIN
             THEN IF y_waste = 0 /\ bin.free_space = w THEN <<"exact", bin_index>>
                  ELSE IF y_waste < best_waste THEN <<"better", bin_index>>
                  ELSE B_find_bin(b, bin.next, w, y_waste, best_waste)
             ELSE B_find_bin(b, bin.next, w, y_waste, best_waste)

RECURSIVE B_search(_, _, _, _, _, _)
\* the `'shelves: for (shelf_index, shelf)` loop of allocate;
\* sel = [shelf, bin, best_waste]
B_search(b, shelf_index, w, h, can_add_shelf, sel) ==
    IF shelf_index >= Len(b.shelves) THEN sel
    ELSE
        LET shelf == b.shelves[shelf_index + 1]
            y_waste == shelf.height - h
        IN  IF shelf.height < h \/ shelf.bin_width < w
            THEN B_search(b, shelf_index + 1, w, h, can_add_shelf, sel)
            ELSE IF y_waste > sel.best_waste \/ (can_add_shelf /\ y_waste > h)
            THEN B_search(b, shelf_index + 1, w, h, can_add_shelf, sel)
            ELSE LET f == B_find_bin(b, shelf.first_bin, w, y_waste, sel.best_waste)
                 IN  IF f[1] = "exact"
                     THEN [shelf |-> shelf_index, bin |-> f[2], best_waste |-> sel.best_waste]
                     ELSE IF f[1] = "better"
                     THEN B_search(b, shelf_index + 1, w, h, can_add_shelf,
                                   [shelf |-> shelf_index, bin |-> f[2], best_waste |-> y_waste])
                     ELSE B_search(b, shelf_index + 1, w, h, can_add_shelf, sel)

\* allocate, lines 196-197 and 206-208: the allocation from the first bin of the shelf just
\* added; added = [atlas, shelf_index, panic]
B_alloc_from_added(added, w, dbg) ==
    IF added.panic # "" THEN Ret(added.atlas, None, added.panic)
    ELSE B_alloc_from_bin(added.atlas, added.shelf_index,
                          added.atlas.shelves[added.shelf_index + 1].first_bin, w, dbg)

\* allocate, lines 199-210: the allocation from the coalesced shelf, if any;
\* selected = [atlas, shelf, bin, panic]
B_alloc_from_coalesced(selected, w, dbg) ==
    IF selected.panic # "" THEN Ret(selected.atlas, None, selected.panic)
    ELSE IF selected.bin # INVALID
    THEN B_alloc_from_bin(selected.atlas, selected.shelf, selected.bin, w, dbg)
    ELSE Ret(selected.atlas, None, "")

\* allocate from `if selected_bin == BinIndex::INVALID` on (lines 194-210);
\* sel = [shelf, bin, best_waste] is what the shelf loop selected
B_allocate_selected(b, sel, can_add_shelf, w, h, dbg) ==
    IF sel.bin # INVALID THEN B_alloc_from_bin(b, sel.shelf, sel.bin, w, dbg)
    ELSE IF can_add_shelf THEN B_alloc_from_added(B_add_shelf(b, w, h, dbg), w, dbg)
    ELSE B_alloc_from_coalesced(B_coalesce_shelves(b, w, h), w, dbg)

\* allocate from `let mut selected_shelf` on (lines 152-210), w and h being the
\* aligned request in shelf coordinates
B_allocate_flipped(b, w, h, can_add_shelf, dbg) ==
    B_allocate_selected(b,
        B_search(b, 0, w, h, can_add_shelf,
                 [shelf |-> NO_SHELF, bin |-> INVALID, best_waste |-> U16_MAX]),
        can_add_shelf, w, h, dbg)

\* allocate from the size check on (lines 146-210), the request being aligned
B_allocate_aligned(b, rw, rh, wh, dbg) ==
    IF rw > b.column_width \/ rh > b.height THEN Ret(b, None, "")
    ELSE B_allocate_flipped(b, wh[1], wh[2],
            /\ (b.available_height >= wh[2] \/ b.current_column + 1 < b.num_columns)
            /\ Len(b.shelves) < MAX_SHELF_COUNT
            /\ Len(b.bins) < MAX_BIN_COUNT,
            dbg)

\* BucketedAtlasAllocator::allocate; returns Ret(atlas, Option<Allocation>, panic)
B_allocate(b, requested_size, dbg) ==
    IF SizeIsEmpty(requested_size) THEN Ret(b, None, "")
    ELSE
    LET rw == adjust_size(b.alignment.width, requested_size.width)
        rh == adjust_size(b.alignment.height, requested_size.height)
    IN  B_allocate_aligned(b, rw, rh,
                           convert_coordinates(b.flip_xy, Wrap16(rw), Wrap16(rh)), dbg)

\* a deallocate_from_bin that gives the space back at every call: the
\* bounds and assertion checks are those of deallocate_from_bin
B_deallocate_from_bin_restoring(b, id) ==
    IF id.bin >= Len(b.bins)
    THEN [atlas |-> b, gc |-> FALSE, panic |-> "index out of bounds"]
    ELSE IF id.generation # b.bins[id.bin + 1].generation
    THEN [atlas |-> b, gc |-> FALSE, panic |-> "assert_eq!(generation, expected_generation)"]
    ELSE IF ~(b.bins[id.bin + 1].refcount > 0)
    THEN [atlas |-> b, gc |-> FALSE, panic |-> "assert!(bin.refcount > 0)"]
    ELSE IF b.bins[id.bin + 1].shelf >= Len(b.shelves)
    THEN [atlas |-> b, gc |-> FALSE, panic |-> "index out of bounds"]
    ELSE [atlas |-> [b EXCEPT !.bins[id.bin + 1].refcount = @ - 1,
                              !.bins[id.bin + 1].free_space =
                                  b.shelves[b.bins[id.bin + 1].shelf + 1].bin_width],
          gc |-> b.bins[id.bin + 1].refcount = 1
                 /\ b.bins[id.bin + 1].shelf = Len(b.shelves) - 1,
          panic |-> ""]

\* deallocate_from_bin; returns [atlas, gc, panic]
B_deallocate_from_bin(b, id) ==
    LET bin_index == id.bin
    IN  IF bin_index >= Len(b.bins)
        THEN [atlas |-> b, gc |-> FALSE, panic |-> "index out of bounds"]
        ELSE
        LET bin == b.bins[bin_index + 1]
        IN  IF id.generation # bin.generation
            THEN [atlas |-> b, gc |-> FALSE, panic |-> "assert_eq!(generation, expected_generation)"]
            ELSE IF ~(bin.refcount > 0)
            THEN [atlas |-> b, gc |-> FALSE, panic |-> "assert!(bin.refcount > 0)"]
            ELSE IF bin.shelf >= Len(b.shelves)
            THEN [atlas |-> b, gc |-> FALSE, panic |-> "index out of bounds"]
            ELSE
            LET shelf == b.shelves[bin.shelf + 1]
                bin_is_empty == bin.refcount - 1 = 0
                bin1 == [bin EXCEPT !.refcount = @ - 1,
                                    !.free_space = IF bin_is_empty THEN shelf.bin_width ELSE @]
            IN  [atlas |-> [b EXCEPT !.bins[bin_index + 1] = bin1],
                 gc |-> bin_is_empty /\ bin.shelf = Len(b.shelves) - 1,
                 panic |-> ""]

RECURSIVE B_last_bin(_, _, _)
\* the bin walk of cleanup_shelves: the last bin of the list starting at bin_index
B_last_bin(b, bin_index, last_bin) ==
    IF bin_index = INVALID THEN last_bin
    ELSE B_last_bin(b, b.bins[bin_index + 1].next, bin_index)

\* a cleanup_shelves that removes the top shelf if it is empty and stops there
B_cleanup_shelves_once(b, dbg) ==
    IF Len(b.shelves) = 0 THEN [atlas |-> b, panic |-> ""]
    ELSE IF ~B_shelf_bins_empty(b, b.shelves[Len(b.shelves)].first_bin)
    THEN [atlas |-> b, panic |-> ""]
    ELSE IF b.shelves[Len(b.shelves)].y = 0 /\ b.current_column > 0
    THEN IF Len(b.shelves) < 2
         THEN [atlas |-> b, panic |-> "index out of bounds"]
         ELSE [atlas |->
                 [b EXCEPT !.bins[B_last_bin(b, b.shelves[Len(b.shelves)].first_bin,
                                             b.shelves[Len(b.shelves)].first_bin) + 1].next =
                               b.first_unallocated_bin,
                           !.first_unallocated_bin = b.shelves[Len(b.shelves)].first_bin,
                           !.current_column = @ - 1,
                           !.available_height =
                               Wrap16(b.height - Wrap16(b.shelves[Len(b.shelves) - 1].y
                                                        + b.shelves[Len(b.shelves) - 1].height)),
                           !.shelves = SubSeq(@, 1, Len(b.shelves) - 1)],
               panic |-> ""]
    ELSE [atlas |->
            [b EXCEPT !.bins[B_last_bin(b, b.shelves[Len(b.shelves)].first_bin,
                                        b.shelves[Len(b.shelves)].first_bin) + 1].next =
                          b.first_unallocated_bin,
                      !.first_unallocated_bin = b.shelves[Len(b.shelves)].first_bin,
                      !.available_height = Wrap16(@ + b.shelves[Len(b.shelves)].height),
                      !.shelves = SubSeq(@, 1, Len(b.shelves) - 1)],
          panic |-> ""]

RECURSIVE B_cleanup_shelves(_, _)
\* cleanup_shelves; returns [atlas, panic]
B_cleanup_shelves(b, dbg) ==
    LET len == Len(b.shelves)
    IN  IF len = 0 THEN [atlas |-> b, panic |-> ""]
        ELSE
        LET shelf == b.shelves[len]
        IN  IF ~B_shelf_bins_empty(b, shelf.first_bin) THEN [atlas |-> b, panic |-> ""]
            ELSE
            LET last_bin == B_last_bin(b, shelf.first_bin, shelf.first_bin)
            IN  IF last_bin = INVALID
                THEN \* debug_assert!(last_bin != INVALID); then bins[65535] is indexed
                     [atlas |-> b, panic |-> IF dbg THEN "debug_assert!(last_bin != BinIndex::INVALID)"
                                             ELSE "index out of bounds"]
                ELSE
                LET b1 == [b EXCEPT !.bins[last_bin + 1].next = b.first_unallocated_bin,
                                    !.first_unallocated_bin = shelf.first_bin]
                IN  IF shelf.y = 0 /\ b.current_column > 0
                    THEN IF len < 2
                         THEN [atlas |-> b1, panic |-> "index out of bounds"]
                         ELSE
                         LET prev_shelf == b.shelves[len - 1]
                             top == prev_shelf.y + prev_shelf.height
                         IN  IF dbg /\ (top > U16_MAX \/ b.height < top)
                             THEN [atlas |-> b1, panic |-> "arithmetic overflow"]
                             ELSE B_cleanup_shelves(
                                     [b1 EXCEPT !.current_column = @ - 1,
                                                !.available_height = Wrap16(b.height - Wrap16(top)),
                                                !.shelves = SubSeq(@, 1, len - 1)], dbg)
                    ELSE IF dbg /\ b.available_height + shelf.height > U16_MAX
                         THEN [atlas |-> b1, panic |-> "attempt to add with overflow"]
                         ELSE B_cleanup_shelves(
                                 [b1 EXCEPT !.available_height = Wrap16(@ + shelf.height),
                                            !.shelves = SubSeq(@, 1, len - 1)], dbg)

\* a deallocate that leaves the shelves as they are
B_deallocate_without_cleanup(b, id, dbg) ==
    IF B_deallocate_from_bin(b, id).panic # ""
    THEN Ret(b, None, B_deallocate_from_bin(b, id).panic)
    ELSE Ret(B_deallocate_from_bin(b, id).atlas, None, "")

\* BucketedAtlasAllocator::deallocate; returns Ret(atlas, None, panic)
B_deallocate(b, id, dbg) ==
    LET d == B_deallocate_from_bin(b, id)
    IN  IF d.panic # "" THEN Ret(b, None, d.panic)
        ELSE IF d.gc
        THEN LET c == B_cleanup_shelves(d.atlas, dbg)
             IN  Ret(c.atlas, None, c.panic)
        ELSE Ret(d.atlas, None, "")

----------------------------------------------------------------------------
(* allocator2::AtlasAllocator (src/src/allocator2.rs)                      *)

\* ShelfIndex::NONE / ItemIndex::NONE
NONE == 65535

\* the assertions of AtlasAllocator::with_options
P_with_options_asserts(sz, opts) ==
    /\ sz.width > 0 /\ sz.height > 0
    /\ sz.width <= U16_MAX /\ sz.height <= U16_MAX
    /\ opts.alignment.width > 0 /\ opts.alignment.height > 0

\* the first shelf and first item both with_options and clear create
P_first_shelf(sz) ==
    [y |-> 0, height |-> Wrap16(sz.height), prev |-> NONE, next |-> NONE,
     is_empty |-> TRUE, first_item |-> 0]

P_first_item(sz) ==
    [x |-> 0, width |-> Wrap16(sz.width), prev |-> NONE, next |-> NONE,
     shelf |-> 0, allocated |-> FALSE]

P_with_options(sz, opts) ==
    [ shelves |-> <<P_first_shelf(sz)>>,
      items |-> <<P_first_item(sz)>>,
      size |-> sz,
      alignment |-> opts.alignment,
      flip_xy |-> opts.vertical_shelves,
      first_shelf |-> 0,
      free_items |-> NONE,
      free_shelves |-> NONE ]

P_clear(a) ==
    [a EXCEPT !.items = <<P_first_item(a.size)>>,
              !.shelves = <<P_first_shelf(a.size)>>,
              !.first_shelf = 0,
              !.free_shelves = NONE,
              !.free_items = NONE]

P_size(a) == a.size

\* is_empty() that looks at the first item's allocated flag only
P_is_empty_first_item_only(a) ==
    LET shelf == a.shelves[a.first_shelf + 1]
        item == a.items[shelf.first_item + 1]
    IN  ~item.allocated

P_is_empty(a) ==
    LET shelf == a.shelves[a.first_shelf + 1]
        item == a.items[shelf.first_item + 1]
    IN  shelf.next = NONE /\ item.next = NONE /\ ~item.allocated

P_remove_item(a, idx) ==
    [a EXCEPT !.items[idx + 1].next = a.free_items, !.free_items = idx]

P_remove_shelf(a, idx) ==
    LET a1 == P_remove_item(a, a.shelves[idx + 1].first_item)
    IN  [a1 EXCEPT !.shelves[idx + 1].next = a1.free_shelves, !.free_shelves = idx]

\* an add_item that always grows the vector
P_add_item_growing(a, item) ==
    <<[a EXCEPT !.items = Append(@, item)], Wrap16(Len(a.items))>>

\* add_item; returns <<allocator, index>>
P_add_item(a, item) ==
    IF a.free_items # NONE
    THEN LET idx == a.free_items
         IN  <<[a EXCEPT !.free_items = a.items[idx + 1].next, !.items[idx + 1] = item], idx>>
    ELSE <<[a EXCEPT !.items = Append(@, item)], Wrap16(Len(a.items))>>

\* an add_shelf that stores the shelf without its link to the shelf before it
P_add_shelf_unlinked(a, shelf) ==
    IF a.free_shelves # NONE
    THEN <<[a EXCEPT !.free_shelves = a.shelves[a.free_shelves + 1].next,
                     !.shelves[a.free_shelves + 1] = [shelf EXCEPT !.prev = NONE]],
           a.free_shelves>>
    ELSE <<[a EXCEPT !.shelves = Append(@, [shelf EXCEPT !.prev = NONE])],
           Wrap16(Len(a.shelves))>>

\* add_shelf; returns <<allocator, index>>
P_add_shelf(a, shelf) ==
    IF a.free_shelves # NONE
    THEN LET idx == a.free_shelves
         IN  <<[a EXCEPT !.free_shelves = a.shelves[idx + 1].next, !.shelves[idx + 1] = shelf], idx>>
    ELSE <<[a EXCEPT !.shelves = Append(@, shelf)], Wrap16(Len(a.shelves))>>

RECURSIVE P_check_items(_, _, _, _, _)
\* the item loop of check; returns [panic, accum_w]
P_check_items(a, item_idx, prev_item_idx, prev_allocated, accum_w) ==
    IF item_idx = NONE THEN [panic |-> "", accum_w |-> accum_w]
    ELSE LET item == a.items[item_idx + 1]
         IN  IF item.prev # prev_item_idx
             THEN [panic |-> "assert_eq!(item.prev, prev_item_idx)", accum_w |-> accum_w]
             ELSE IF ~prev_allocated /\ ~item.allocated
             THEN [panic |-> "item should be allocated", accum_w |-> accum_w]
             ELSE P_check_items(a, item.next, item_idx, item.allocated, accum_w + item.width)

RECURSIVE P_check_shelves(_, _, _, _, _)
\* the shelf loop of check; returns "" or the failed assertion
P_check_shelves(a, shelf_idx, prev_empty, accum_h, target) ==
    IF shelf_idx = NONE
    THEN IF accum_h = target[2] THEN "" ELSE "assert_eq!(accum_h as i32, target_h)"
    ELSE LET shelf == a.shelves[shelf_idx + 1]
         IN  IF prev_empty /\ shelf.is_empty THEN "assert!(!shelf.is_empty)"
             ELSE IF shelf.is_empty /\ a.items[shelf.first_item + 1].allocated
             THEN "assert!(!self.items[shelf.first_item.index()].allocated)"
             ELSE IF shelf.is_empty /\ a.items[shelf.first_item + 1].next # NONE
             THEN "assert!(self.items[shelf.first_item.index()].next.is_none())"
             ELSE LET r == P_check_items(a, shelf.first_item, NONE, TRUE, 0)
                  IN  IF r.panic # "" THEN r.panic
                      ELSE IF r.accum_w # target[1] THEN "assert_eq!(accum_w as i32, target_w)"
                      ELSE P_check_shelves(a, shelf.next, shelf.is_empty,
                                           accum_h + shelf.height, target)

\* check; returns "" or the failed assertion
P_check(a) ==
    LET target == IF a.flip_xy THEN <<a.size.height, a.size.width>>
                  ELSE <<a.size.width, a.size.height>>
    IN  P_check_shelves(a, a.first_shelf, FALSE, 0, target)

RECURSIVE P_find_item(_, _, _)
\* the item loop of allocate: the first free item wider than width, or NONE
P_find_item(a, item_idx, width) ==
    IF item_idx = NONE THEN NONE
    ELSE LET item == a.items[item_idx + 1]
         IN  IF ~item.allocated /\ item.width > width THEN item_idx
             ELSE P_find_item(a, item.next, width)

RECURSIVE P_search(_, _, _, _, _, _)
\* the shelf loop of allocate; sel = [height, shelf, item, panic]
P_search(a, shelf_idx, width, height, dbg, sel) ==
    IF shelf_idx = NONE THEN sel
    ELSE
        LET shelf == a.shelves[shelf_idx + 1]
            doubled == height * 2
            reads_doubled == ~(shelf.height < height) /\ ~(shelf.height >= sel.height)
                             /\ ~shelf.is_empty
        IN  IF dbg /\ reads_doubled /\ doubled > U16_MAX
            THEN [sel EXCEPT !.panic = "attempt to multiply with overflow"]
            ELSE IF \/ shelf.height < height
                    \/ shelf.height >= sel.height
                    \/ (~shelf.is_empty /\ shelf.height > Wrap16(doubled))
            THEN P_search(a, shelf.next, width, height, dbg, sel)
            ELSE LET item_idx == P_find_item(a, shelf.first_item, width)
                 IN  IF item_idx # NONE
                     THEN LET sel1 == [height |-> shelf.height, shelf |-> shelf_idx,
                                       item |-> item_idx, panic |-> ""]
                          IN  IF shelf.height = height THEN sel1
                              ELSE P_search(a, shelf.next, width, height, dbg, sel1)
                     ELSE P_search(a, shelf.next, width, height, dbg, sel)

\* a split shelf's upper part starting where the lower part starts
P_split_shelf_y_unmoved(shelf, height) == shelf.y

\* a split shelf's upper part starting where the lower part ends
P_split_shelf_y_at_bottom(shelf, height) == Wrap16(shelf.y + shelf.height)

\* `y: shelf.y + height` of the shelf created by a shelf split
P_split_shelf_y(shelf, height) == Wrap16(shelf.y + height)

\* the shelf split of allocate (lines 215-251)
P_split_shelf(a, selected_shelf, shelf, height) ==
    LET a1 == IF shelf.is_empty
              THEN [a EXCEPT !.shelves[selected_shelf + 1].is_empty = FALSE]
              ELSE a
    IN  IF shelf.is_empty /\ shelf.height > Wrap16(height + SHELF_SPLIT_THRESHOLD)
        THEN LET s == P_add_shelf(a1, [ y |-> P_split_shelf_y(shelf, height),
                                        height |-> Wrap16(shelf.height - height),
                                        prev |-> selected_shelf,
                                        next |-> shelf.next,
                                        first_item |-> NONE,
                                        is_empty |-> TRUE ])
                 new_shelf_idx == s[2]
                 it == P_add_item(s[1], [ x |-> 0,
                                          width |-> Wrap16(a.size.width),
                                          prev |-> NONE,
                                          next |-> NONE,
                                          shelf |-> new_shelf_idx,
                                          allocated |-> FALSE ])
                 a2 == [it[1] EXCEPT !.shelves[new_shelf_idx + 1].first_item = it[2]]
                 next == a2.shelves[selected_shelf + 1].next
                 a3 == [a2 EXCEPT !.shelves[selected_shelf + 1].height = height,
                                  !.shelves[selected_shelf + 1].next = new_shelf_idx]
             IN  IF next # NONE
                 THEN [a3 EXCEPT !.shelves[next + 1].prev = new_shelf_idx]
                 ELSE a3
        ELSE a1

\* a split item's free remainder starting where the allocated part starts
P_split_item_x_unmoved(item, width) == item.x

\* `x: item.x + width` of the free item created by an item split
P_split_item_x(item, width) == Wrap16(item.x + width)

\* the item split of allocate (lines 253-274), and the allocated flag
P_split_item(a, selected_item, width) ==
    LET item == a.items[selected_item + 1]
        a3 == IF Wrap16(item.width - width) > ITEM_SPLIT_THRESHOLD
              THEN LET it == P_add_item(a, [ x |-> P_split_item_x(item, width),
                                             width |-> Wrap16(item.width - width),
                                             prev |-> selected_item,
                                             next |-> item.next,
                                             shelf |-> item.shelf,
                                             allocated |-> FALSE ])
                       a1 == [it[1] EXCEPT !.items[selected_item + 1].width = width,
                                           !.items[selected_item + 1].next = it[2]]
                   IN  IF item.next # NONE
                       THEN [a1 EXCEPT !.items[item.next + 1].prev = it[2]]
                       ELSE a1
              ELSE a
    IN  [a3 EXCEPT !.items[selected_item + 1].allocated = TRUE]

\* AllocId of the per-item engine: the item index as u32
P_AllocId(item_idx) == item_idx

\* AtlasAllocator::allocate; returns Ret(atlas, Option<Allocation>, panic)
P_allocate(a, requested, dbg) ==
    IF SizeIsEmpty(requested) THEN Ret(a, None, "")
    ELSE
    LET rw == adjust_size(a.alignment.width, requested.width)
        rh == adjust_size(a.alignment.height, requested.height)
    IN  IF rw > a.size.width \/ rh > a.size.height THEN Ret(a, None, "")
        ELSE
        LET wh == convert_coordinates(a.flip_xy, Wrap16(rw), Wrap16(rh))
            width == wh[1]
            height == shelf_height(wh[2])
        IN  IF dbg /\ shelf_height_overflows(wh[2])
            THEN Ret(a, None, "attempt to add with overflow")
            ELSE
            LET sel == P_search(a, a.first_shelf, width, height, dbg,
                                [height |-> U16_MAX, shelf |-> NONE, item |-> NONE, panic |-> ""])
            IN  IF sel.panic # "" THEN Ret(a, None, sel.panic)
                ELSE IF sel.shelf = NONE THEN Ret(a, None, "")
                ELSE
                LET shelf == a.shelves[sel.shelf + 1]
                    item == a.items[sel.item + 1]
                    a1 == P_split_shelf(a, sel.shelf, shelf, height)
                    a2 == P_split_item(a1, sel.item, width)
                    x0 == item.x
                    y0 == shelf.y
                    x1 == Wrap16(x0 + width)
                    y1 == Wrap16(y0 + height)
                    overflow == \/ (shelf.is_empty /\ height + SHELF_SPLIT_THRESHOLD > U16_MAX)
                                \/ x0 + width > U16_MAX
                                \/ y0 + height > U16_MAX
                    lo == convert_coordinates(a.flip_xy, x0, y0)
                    hi == convert_coordinates(a.flip_xy, x1, y1)
                    failed == P_check(a2)
                IN  IF dbg /\ overflow THEN Ret(a, None, "arithmetic overflow")
                    ELSE IF failed # "" THEN Ret(a2, None, failed)
                    ELSE Ret(a2, Some([id |-> P_AllocId(sel.item),
                                       rectangle |-> MkRect(lo[1], lo[2], hi[1], hi[2])]), "")

\* the item merges of deallocate without the merge of the next item
P_merge_items_prev_only(a, item_idx) ==
    LET item == a.items[item_idx + 1]
        merge_prev == item.prev # NONE /\ ~a.items[item.prev + 1].allocated
        a2 == IF merge_prev
              THEN LET t1 == [a EXCEPT !.items[item.prev + 1].next = item.next,
                                       !.items[item.prev + 1].width = Wrap16(@ + item.width)]
                       t2 == IF item.next # NONE
                             THEN [t1 EXCEPT !.items[item.next + 1].prev = item.prev]
                             ELSE t1
                   IN  P_remove_item(t2, item_idx)
              ELSE a
        prev == IF merge_prev THEN a2.items[item.prev + 1].prev ELSE item.prev
    IN  [atlas |-> a2, prev |-> prev, next |-> item.next]

\* the item merges of deallocate (lines 305-339); returns [atlas, prev, next]
P_merge_items(a, item_idx) ==
    LET item == a.items[item_idx + 1]
        merge_next == item.next # NONE /\ ~a.items[item.next + 1].allocated
        next_next == a.items[item.next + 1].next
        next_width == a.items[item.next + 1].width
        a1 == IF merge_next
              THEN LET t1 == [a EXCEPT !.items[item_idx + 1].next = next_next,
                                       !.items[item_idx + 1].width = Wrap16(@ + next_width)]
                       t2 == IF next_next # NONE
                             THEN [t1 EXCEPT !.items[next_next + 1].prev = item_idx]
                             ELSE t1
                   IN  P_remove_item(t2, item.next)
              ELSE a
        width == IF merge_next THEN a1.items[item_idx + 1].width ELSE item.width
        next == IF merge_next THEN next_next ELSE item.next
        merge_prev == item.prev # NONE /\ ~a1.items[item.prev + 1].allocated
        a2 == IF merge_prev
              THEN LET t1 == [a1 EXCEPT !.items[item.prev + 1].next = next,
                                        !.items[item.prev + 1].width = Wrap16(@ + width)]
                       t2 == IF next # NONE
                             THEN [t1 EXCEPT !.items[next + 1].prev = item.prev]
                             ELSE t1
                   IN  P_remove_item(t2, item_idx)
              ELSE a1
        prev == IF merge_prev THEN a2.items[item.prev + 1].prev ELSE item.prev
    IN  [atlas |-> a2, prev |-> prev, next |-> next]

\* the shelf merges of deallocate without `is_empty = true`
P_merge_shelves_keeping_flag(a, shelf_idx) ==
    LET next_shelf == a.shelves[shelf_idx + 1].next
        a1 == IF next_shelf # NONE /\ a.shelves[next_shelf + 1].is_empty
              THEN LET next_next == a.shelves[next_shelf + 1].next
                       next_height == a.shelves[next_shelf + 1].height
                       t1 == [a EXCEPT !.shelves[shelf_idx + 1].next = next_next,
                                       !.shelves[shelf_idx + 1].height = Wrap16(@ + next_height)]
                       t2 == IF next_next # NONE
                             THEN [t1 EXCEPT !.shelves[next_next + 1].prev = shelf_idx]
                             ELSE t1
                   IN  P_remove_shelf(t2, next_shelf)
              ELSE a
        prev_shelf == a1.shelves[shelf_idx + 1].prev
    IN  IF prev_shelf # NONE /\ a1.shelves[prev_shelf + 1].is_empty
        THEN LET next_shelf2 == a1.shelves[shelf_idx + 1].next
                 t1 == [a1 EXCEPT !.shelves[prev_shelf + 1].next = next_shelf2,
                                  !.shelves[prev_shelf + 1].height =
                                       Wrap16(@ + a1.shelves[shelf_idx + 1].height)]
                 t2 == IF next_shelf2 # NONE
                       THEN [t1 EXCEPT !.shelves[next_shelf2 + 1].prev = prev_shelf]
                       ELSE t1
             IN  P_remove_shelf(t2, shelf_idx)
        ELSE a1

\* the shelf merges of deallocate without the merge into the previous shelf
P_merge_shelves_next_only(a, shelf_idx) ==
    LET a0 == [a EXCEPT !.shelves[shelf_idx + 1].is_empty = TRUE]
        next_shelf == a0.shelves[shelf_idx + 1].next
    IN  IF next_shelf # NONE /\ a0.shelves[next_shelf + 1].is_empty
        THEN LET next_next == a0.shelves[next_shelf + 1].next
                 next_height == a0.shelves[next_shelf + 1].height
                 t1 == [a0 EXCEPT !.shelves[shelf_idx + 1].next = next_next,
                                  !.shelves[shelf_idx + 1].height = Wrap16(@ + next_height)]
                 t2 == IF next_next # NONE
                       THEN [t1 EXCEPT !.shelves[next_next + 1].prev = shelf_idx]
                       ELSE t1
             IN  P_remove_shelf(t2, next_shelf)
        ELSE a0

\* the shelf merges of deallocate (lines 341-380)
P_merge_shelves(a, shelf_idx) ==
    LET a0 == [a EXCEPT !.shelves[shelf_idx + 1].is_empty = TRUE]
        next_shelf == a0.shelves[shelf_idx + 1].next
        a1 == IF next_shelf # NONE /\ a0.shelves[next_shelf + 1].is_empty
              THEN LET next_next == a0.shelves[next_shelf + 1].next
                       next_height == a0.shelves[next_shelf + 1].height
                       t1 == [a0 EXCEPT !.shelves[shelf_idx + 1].next = next_next,
                                        !.shelves[shelf_idx + 1].height = Wrap16(@ + next_height)]
                       t2 == IF next_next # NONE
                             THEN [t1 EXCEPT !.shelves[next_next + 1].prev = shelf_idx]
                             ELSE t1
                   IN  P_remove_shelf(t2, next_shelf)
              ELSE a0
        prev_shelf == a1.shelves[shelf_idx + 1].prev
    IN  IF prev_shelf # NONE /\ a1.shelves[prev_shelf + 1].is_empty
        THEN LET next_shelf2 == a1.shelves[shelf_idx + 1].next
                 t1 == [a1 EXCEPT !.shelves[prev_shelf + 1].next = next_shelf2,
                                  !.shelves[prev_shelf + 1].height =
                                       Wrap16(@ + a1.shelves[shelf_idx + 1].height)]
                 t2 == IF next_shelf2 # NONE
                       THEN [t1 EXCEPT !.shelves[next_shelf2 + 1].prev = prev_shelf]
                       ELSE t1
             IN  P_remove_shelf(t2, shelf_idx)
        ELSE a1

\* AtlasAllocator::deallocate; returns Ret(atlas, None, panic)
P_deallocate(a, id) ==
    LET item_idx == Wrap16(id)
    IN  IF item_idx >= Len(a.items) THEN Ret(a, None, "index out of bounds")
        ELSE IF ~a.items[item_idx + 1].allocated THEN Ret(a, None, "assert!(allocated)")
        ELSE
        LET shelf_idx == a.items[item_idx + 1].shelf
            a1 == [a EXCEPT !.items[item_idx + 1].allocated = FALSE]
            m == P_merge_items(a1, item_idx)
            a2 == IF m.prev = NONE /\ m.next = NONE
                  THEN P_merge_shelves(m.atlas, shelf_idx)
                  ELSE m.atlas
        IN  Ret(a2, None, P_check(a2))

----------------------------------------------------------------------------
(* The caller: constructs one allocator, then calls allocate / deallocate   *)
(* (and clear) on it, keeping the live allocations as the fuzz targets do.  *)

\* bound: number of successful allocate calls in one run
MaxCalls == 5

\* how many calls after clear() are compared with a new allocator
EquivDepth == 3

\* bound: number of deallocated ids the caller holds at a time
MaxStale == 1

Opts(aw, ah, vertical, columns) ==
    [alignment |-> size2(aw, ah), vertical_shelves |-> vertical, num_columns |-> columns]

DEFAULT_OPTIONS == Opts(1, 1, FALSE, 1)

\* a construction (engine, size, options) and the request sizes tried on it
Cfg(e, w, h, opts, widths, heights) ==
    [engine |-> e, size |-> size2(w, h), options |-> opts,
     requests |-> { size2(rw, rh) : rw \in widths, rh \in heights }]

\* the constructions explored: both orientations, one and two columns, square and
\* non-square surfaces, an alignment that does not divide the shelf-height buckets,
\* and the largest surface each constructor accepts
BucketedConfigs ==
    { Cfg("bucketed", 8, 40, DEFAULT_OPTIONS, {8}, {8, 16, 40}),
      Cfg("bucketed", 40, 16, DEFAULT_OPTIONS, {8, 40}, {8, 16}),
      Cfg("bucketed", 16, 16, Opts(1, 1, FALSE, 2), {8, 16}, {8, 16}),
      Cfg("bucketed", 16, 16, Opts(1, 1, TRUE, 2), {8, 16}, {8, 16}),
      Cfg("bucketed", 16, 8, Opts(1, 1, TRUE, 1), {8, 16}, {8, 16}),
      Cfg("bucketed", 8, 32, Opts(1, 3, FALSE, 1), {8}, {8, 32}),
      Cfg("bucketed", 65534, 65534, DEFAULT_OPTIONS, {8}, {8, 65534}) }

PerItemConfigs ==
    { Cfg("peritem", 32, 24, DEFAULT_OPTIONS, {8, 16, 32}, {8, 16, 24}),
      Cfg("peritem", 24, 24, Opts(8, 16, TRUE, 1), {8, 16, 24}, {8, 16, 24}),
      Cfg("peritem", 16, 8, Opts(1, 1, TRUE, 1), {4, 8}, {4, 8}),
      Cfg("peritem", 8, 32, Opts(1, 3, FALSE, 1), {4}, {8, 32}),
      Cfg("peritem", 65534, 65534, DEFAULT_OPTIONS, {8}, {8, 65534}) }

Configs == BucketedConfigs \cup PerItemConfigs

New(e, sz, opts) ==
    IF e = "bucketed" THEN B_with_options(sz, opts) ELSE P_with_options(sz, opts)

Alloc(e, a, req, dbg) ==
    IF e = "bucketed" THEN B_allocate(a, req, dbg) ELSE P_allocate(a, req, dbg)

Dealloc(e, a, id, dbg) ==
    IF e = "bucketed" THEN B_deallocate(a, id, dbg) ELSE P_deallocate(a, id)

Cleared(e, a) ==
    IF e = "bucketed" THEN B_clear(a) ELSE P_clear(a)

IsEmpty(e, a) ==
    IF e = "bucketed" THEN B_is_empty(a) ELSE P_is_empty(a)

NoCall == [op |-> "new", requested |-> size2(0, 0), res |-> None]

InitFrom(configs) ==
    \E c \in configs, dbg \in BOOLEAN :
        /\ engine = c.engine
        /\ debug_assertions = dbg
        /\ size = c.size
        /\ options = c.options
        /\ atlas = New(c.engine, c.size, c.options)
        /\ allocations = {}
        /\ last = NoCall
        /\ requests = c.requests
        /\ panicked = ""
        /\ ncalls = 0
        /\ stale = {}
        /\ ids = <<>>

Init == InitFrom(Configs)

RECURSIVE B_free_bins(_, _)
\* the bin slots on the free list that starts at bin_index
B_free_bins(b, bin_index) ==
    IF bin_index = INVALID THEN {}
    ELSE {bin_index} \cup B_free_bins(b, b.bins[bin_index + 1].next)

\* the bin slots that a call took from the free list for a new shelf
Recycled(e, a1, a2) ==
    IF e = "bucketed"
    THEN B_free_bins(a1, a1.first_unallocated_bin) \ B_free_bins(a2, a2.first_unallocated_bin)
    ELSE {}

\* the held ids after a call: each counts how often its bin slot was reused
Aged(fs, e, a1, a2) ==
    { [f EXCEPT !.reuses = IF e = "bucketed" /\ f.al.id.bin \in Recycled(e, a1, a2)
                           THEN @ + 1 ELSE @] : f \in fs }

\* allocate(req): the caller keeps the returned Allocation
Allocate ==
    /\ panicked = ""
    /\ ncalls < MaxCalls
    /\ \E req \in requests :
          \E r \in {Alloc(engine, atlas, req, debug_assertions)} :
              /\ atlas' = r.atlas
              /\ panicked' = r.panic
              /\ last' = [op |-> "allocate", requested |-> req, res |-> r.res]
              /\ allocations' = IF r.res = None THEN allocations
                                ELSE allocations \cup {r.res[1]}
              /\ ncalls' = IF r.res = None THEN ncalls ELSE ncalls + 1
              /\ stale' = Aged(stale, engine, atlas, r.atlas)
    /\ UNCHANGED <<ids, engine, debug_assertions, size, options, requests>>

\* deallocate(id) of a live allocation
Deallocate ==
    /\ panicked = ""
    /\ \E al \in allocations :
          \E r \in {Dealloc(engine, atlas, al.id, debug_assertions)} :
              /\ atlas' = r.atlas
              /\ panicked' = r.panic
              /\ last' = [op |-> "deallocate", requested |-> size2(0, 0), res |-> Some(al)]
              /\ allocations' = allocations \ {al}
    /\ UNCHANGED <<ids, engine, debug_assertions, size, options, requests, ncalls, stale>>

\* deallocate(id) of a live allocation by a caller that keeps a copy of the id
DeallocateKeepId ==
    /\ panicked = ""
    /\ Cardinality(stale) < MaxStale
    /\ \E al \in allocations :
          \E r \in {Dealloc(engine, atlas, al.id, debug_assertions)} :
              /\ atlas' = r.atlas
              /\ panicked' = r.panic
              /\ last' = [op |-> "deallocate", requested |-> size2(0, 0), res |-> Some(al)]
              /\ allocations' = allocations \ {al}
              /\ stale' = stale \cup {[al |-> al, reuses |-> 0]}
    /\ UNCHANGED <<ids, engine, debug_assertions, size, options, requests, ncalls>>

\* deallocate(id) with an id that was deallocated before
DeallocateStale ==
    /\ panicked = ""
    /\ \E f \in stale :
          \E r \in {Dealloc(engine, atlas, f.al.id, debug_assertions)} :
              /\ atlas' = r.atlas
              /\ panicked' = r.panic
              /\ last' = [op |-> "deallocate_stale", requested |-> size2(0, 0),
                          res |-> Some(f.al)]
              /\ stale' = stale \ {f}
    /\ UNCHANGED <<ids, engine, debug_assertions, size, options, requests, ncalls, allocations>>

\* clear(): every id handed out so far is dropped by the caller
Clear ==
    /\ panicked = ""
    /\ last.op # "clear"
    /\ atlas' = Cleared(engine, atlas)
    /\ allocations' = {}
    /\ last' = [op |-> "clear", requested |-> size2(0, 0), res |-> None]
    /\ UNCHANGED <<ids, engine, debug_assertions, size, options, requests, panicked, ncalls,
                   stale>>

Next == Allocate \/ Deallocate

Spec == Init /\ [][Next]_vars

NextClear == Allocate \/ Deallocate \/ Clear

SpecClear == Init /\ [][NextClear]_vars

\* the bucketed engine with horizontal shelves only
InitHorizontal == InitFrom({ c \in BucketedConfigs : ~c.options.vertical_shelves })

SpecHorizontal == InitHorizontal /\ [][Next]_vars

\* the panic of BucketedAtlasAllocator::with_options, "" when it returns
B_with_options_panic(sz, opts) ==
    IF ~B_with_options_asserts(sz, opts) THEN "assertion failed"
    ELSE IF Wrap16(opts.num_columns) = 0 THEN "attempt to divide by zero"
    ELSE IF Wrap16(IF opts.vertical_shelves THEN opts.alignment.height
                   ELSE opts.alignment.width) = 0
    THEN "attempt to calculate the remainder with a divisor of zero"
    ELSE ""

\* the panic of AtlasAllocator::with_options, "" when it returns
P_with_options_panic(sz, opts) ==
    IF ~P_with_options_asserts(sz, opts) THEN "assertion failed" ELSE ""

NewPanic(e, sz, opts) ==
    IF e = "bucketed" THEN B_with_options_panic(sz, opts) ELSE P_with_options_panic(sz, opts)

\* the widths, heights and alignment components given to with_options: around
\* both ends of the u16 range
CtorDims == { -1, 0, 1, 8, 65534, 65535, 65536 }
CtorAlignments == { -1, 0, 1, 8 }

\* before the constructor was called
Unconstructed == [op |-> "none", requested |-> size2(0, 0), res |-> None]

InitNew ==
    \E e \in {"bucketed", "peritem"}, dbg \in BOOLEAN, vertical \in BOOLEAN,
       w \in CtorDims, h \in CtorDims, aw \in CtorAlignments, ah \in CtorAlignments :
        /\ engine = e
        /\ debug_assertions = dbg
        /\ size = size2(w, h)
        /\ options = Opts(aw, ah, vertical, 1)
        /\ atlas = None
        /\ allocations = {}
        /\ last = Unconstructed
        /\ requests = {}
        /\ panicked = ""
        /\ ncalls = 0
        /\ stale = {}
        /\ ids = <<>>

\* with_options(size, options)
WithOptions ==
    /\ last = Unconstructed
    /\ \E p \in {NewPanic(engine, size, options)} :
          /\ panicked' = p
          /\ atlas' = IF p = "" THEN New(engine, size, options) ELSE atlas
    /\ last' = NoCall
    /\ UNCHANGED <<ids, engine, debug_assertions, size, options, requests, allocations, ncalls,
                   stale>>

SpecNew == InitNew /\ [][WithOptions]_vars

\* a surface of three shelves of one bin each, on which a caller wears out the
\* item counter of the first bin before anything else
ChurnConfig == Cfg("bucketed", 8, 24, DEFAULT_OPTIONS, {8}, {8, 16})

Churning ==
    /\ engine = ChurnConfig.engine /\ size = ChurnConfig.size
    /\ options = ChurnConfig.options
    /\ ncalls = 0
    /\ ~(Len(atlas.bins) > 0 /\ atlas.bins[1].item_count >= MAX_ITEMS_PER_BIN - 2)

\* allocate(8x8) of the wearing caller: fills the three shelves, then takes the
\* first bin again each time it is empty
ChurnAllocate ==
    /\ panicked = ""
    /\ Churning
    /\ IF Len(atlas.shelves) < 3 THEN TRUE ELSE atlas.bins[1].refcount = 0
    /\ \E r \in {Alloc(engine, atlas, size2(8, 8), debug_assertions)} :
          /\ atlas' = r.atlas
          /\ panicked' = r.panic
          /\ last' = [op |-> "allocate", requested |-> size2(8, 8), res |-> r.res]
          /\ allocations' = IF r.res = None THEN allocations
                            ELSE allocations \cup {r.res[1]}
    /\ UNCHANGED <<ids, engine, debug_assertions, size, options, requests, ncalls, stale>>

\* deallocate of the wearing caller: gives back the allocation of the first bin
ChurnDeallocate ==
    /\ panicked = ""
    /\ Churning
    /\ Len(atlas.shelves) = 3 /\ atlas.bins[1].refcount > 0
    /\ \E al \in { x \in allocations : x.id.bin = 0 } :
          \E r \in {Dealloc(engine, atlas, al.id, debug_assertions)} :
              /\ atlas' = r.atlas
              /\ panicked' = r.panic
              /\ last' = [op |-> "deallocate", requested |-> size2(0, 0), res |-> Some(al)]
              /\ allocations' = allocations \ {al}
    /\ UNCHANGED <<ids, engine, debug_assertions, size, options, requests, ncalls, stale>>

NextChurn ==
    \/ ChurnAllocate
    \/ ChurnDeallocate
    \/ ~Churning /\ Allocate
    \/ ~Churning /\ Deallocate

InitChurn == InitFrom(Configs \cup {ChurnConfig})

SpecChurn == InitChurn /\ [][NextChurn]_vars

\* a surface of four shelves of height 8, three of which make room for 24
CoalesceConfig == Cfg("bucketed", 8, 32, DEFAULT_OPTIONS, {8}, {8, 16, 24})

InitCoalesce == InitFrom(BucketedConfigs \cup {ChurnConfig, CoalesceConfig})

\* the bucketed engine, with the surfaces on which shelves are coalesced
SpecCoalesce == InitCoalesce /\ [][NextChurn]_vars

\* surfaces of several columns with horizontal shelves; the second is that of
\* the test `columns`
ColumnConfigs ==
    { Cfg("bucketed", 16, 16, Opts(1, 1, FALSE, 2), {8, 16}, {8, 16}),
      Cfg("bucketed", 64, 64, Opts(1, 1, FALSE, 2), {24}, {8, 32, 46}),
      Cfg("bucketed", 24, 16, Opts(1, 1, FALSE, 3), {8}, {8, 16}) }

InitColumns == InitFrom(ColumnConfigs)

SpecColumns == InitColumns /\ [][Next]_vars

\* surfaces for the per-item engine on which three and more shelves of
\* different heights are in use at once
ShelfConfigs ==
    { Cfg("peritem", 16, 64, DEFAULT_OPTIONS, {8}, {8, 16, 32}),
      Cfg("peritem", 32, 32, Opts(1, 1, TRUE, 1), {8, 16}, {8}) }

InitShelves == InitFrom(PerItemConfigs \cup ShelfConfigs)

SpecShelves == InitShelves /\ [][Next]_vars

\* the run of test_coalesce_shelves, on either engine: 7 x 8 allocations of
\* 32x32 on a 256x256 surface, the first 8 and the 17th to 32nd deallocated,
\* allocate(70x70), allocate(64x64), then everything deallocated
S3Count == 56

S3Configs ==
    { Cfg("bucketed", 256, 256, DEFAULT_OPTIONS, {32, 64, 70}, {32, 64, 70}),
      Cfg("peritem", 256, 256, DEFAULT_OPTIONS, {32, 64, 70}, {32, 64, 70}) }

\* ids[0..8] and ids[16..32] of the test, as positions 1..8 and 17..32
S3FreedFirst == [i \in 1 .. 24 |-> IF i <= 8 THEN i ELSE i + 8]

\* ids[8..16], id, ids[32..56] of the test
S3FreedLast ==
    [i \in 1 .. 33 |-> IF i <= 8 THEN i + 8 ELSE IF i = 9 THEN S3Count + 2 ELSE i + 23]

\* the results at these positions that are still live, as positions of order
S3Live(order) ==
    { i \in 1 .. Len(order) :
        /\ order[i] <= Len(ids)
        /\ ids[order[i]] # None
        /\ ids[order[i]][1] \in allocations }

\* the next request of the run, None when the next call is no allocate
S3NextRequest ==
    IF Len(ids) < S3Count THEN Some(size2(32, 32))
    ELSE IF Len(ids) = S3Count /\ S3Live(S3FreedFirst) = {} THEN Some(size2(70, 70))
    ELSE IF Len(ids) = S3Count + 1 THEN Some(size2(64, 64))
    ELSE None

\* the deallocations still to make at this point of the run
S3NextFreed ==
    IF Len(ids) = S3Count THEN S3FreedFirst
    ELSE IF Len(ids) = S3Count + 2 THEN S3FreedLast
    ELSE <<>>

\* allocate(..) of the run; every result but that of 70x70 is unwrapped
S3Allocate ==
    /\ panicked = ""
    /\ S3NextRequest # None
    /\ \E req \in {S3NextRequest[1]} :
          \E r \in {Alloc(engine, atlas, req, debug_assertions)} :
              /\ atlas' = r.atlas
              /\ panicked' = IF r.panic # "" THEN r.panic
                             ELSE IF r.res = None /\ req # size2(70, 70)
                             THEN "called Option::unwrap() on a None value"
                             ELSE ""
              /\ last' = [op |-> "allocate", requested |-> req, res |-> r.res]
              /\ allocations' = IF r.res = None THEN allocations
                                ELSE allocations \cup {r.res[1]}
              /\ ncalls' = IF r.res = None THEN ncalls ELSE ncalls + 1
              /\ ids' = Append(ids, r.res)
    /\ UNCHANGED <<engine, debug_assertions, size, options, requests, stale>>

\* deallocate(ids[i]) of the run
S3Deallocate ==
    /\ panicked = ""
    /\ S3Live(S3NextFreed) # {}
    /\ \E i \in S3Live(S3NextFreed) :
          /\ \A j \in S3Live(S3NextFreed) : i <= j
          /\ \E al \in {ids[S3NextFreed[i]][1]} :
                \E r \in {Dealloc(engine, atlas, al.id, debug_assertions)} :
                    /\ atlas' = r.atlas
                    /\ panicked' = r.panic
                    /\ last' = [op |-> "deallocate", requested |-> size2(0, 0),
                                res |-> Some(al)]
                    /\ allocations' = allocations \ {al}
    /\ UNCHANGED <<ids, engine, debug_assertions, size, options, requests, ncalls, stale>>

NextS3 == S3Allocate \/ S3Deallocate

InitS3 == InitFrom(S3Configs)

SpecS3 == InitS3 /\ [][NextS3]_vars

\* a caller whose last call may be a deallocate with an id it has deallocated
\* before
NextStale ==
    /\ last.op # "deallocate_stale"
    /\ (Allocate \/ Deallocate \/ DeallocateKeepId \/ DeallocateStale)

\* the constructions on which ids are reused after a deallocate
StaleConfigs ==
    { Cfg("bucketed", 8, 24, DEFAULT_OPTIONS, {8}, {8, 16}),
      Cfg("bucketed", 24, 16, DEFAULT_OPTIONS, {8}, {8}),
      Cfg("peritem", 32, 16, DEFAULT_OPTIONS, {8}, {8, 16}) }

InitStale == InitFrom(StaleConfigs)

SpecStale == InitStale /\ [][NextStale]_vars

----------------------------------------------------------------------------
(* Properties *)

\* euclid Box2D::intersects
intersects(r1, r2) ==
    /\ r1.min.x < r2.max.x /\ r1.max.x > r2.min.x
    /\ r1.min.y < r2.max.y /\ r1.max.y > r2.min.y

\* no two live allocations intersect
NoOverlap ==
    \A a1 \in allocations : \A a2 \in allocations :
        a1 # a2 => ~intersects(a1.rectangle, a2.rectangle)

\* r lies inside (0,0)..size
InsideSurface(r) ==
    /\ 0 <= r.min.x /\ 0 <= r.min.y
    /\ r.max.x <= size.width /\ r.max.y <= size.height

Returned == last.op = "allocate" /\ last.res # None

RectWidth(r) == r.max.x - r.min.x
RectHeight(r) == r.max.y - r.min.y

\* C1: bucketed engine, no two live allocations ever have intersecting rectangles
C1_BucketedNoOverlap == engine = "bucketed" => NoOverlap

\* C2: per-item engine, no two live allocations ever have intersecting rectangles
C2_PerItemNoOverlap == engine = "peritem" => NoOverlap

\* C3: bucketed engine, every rectangle returned by allocate lies inside the surface
C3_BucketedInsideSurface ==
    engine = "bucketed" => \A al \in allocations : InsideSurface(al.rectangle)

C5_SizeFulfilled ==
    Returned => /\ RectWidth(last.res[1].rectangle) >= last.requested.width
                /\ RectHeight(last.res[1].rectangle) >= last.requested.height

\* C6: both engines, a returned rectangle's min corner is a multiple of the alignment
C6_MinAligned ==
    Returned => /\ last.res[1].rectangle.min.x % options.alignment.width = 0
                /\ last.res[1].rectangle.min.y % options.alignment.height = 0

\* C7: both engines, is_empty() is true exactly when no allocation is live
C7_IsEmptyIffNoLive ==
    panicked = "" => (IsEmpty(engine, atlas) <=> allocations = {})

\* the whole surface as a rectangle
FullSurface == MkRect(0, 0, size.width, size.height)

\* r is a successful allocate() that returned the whole surface
ReturnsFullSurface(r) ==
    r.panic = "" /\ r.res # None /\ r.res[1].rectangle = FullSurface

\* r is an allocate() that returned None
ReturnsNone(r) == r.panic = "" /\ r.res = None

\* C8: bucketed engine with default options: whenever nothing is live,
\* allocate(surface size) returns (0,0)..size, every further allocate returns
\* None while it is live, and after its deallocate allocate(surface size)
\* succeeds again
C8_BucketedFullSurface ==
    (engine = "bucketed" /\ options = DEFAULT_OPTIONS /\ allocations = {} /\ panicked = "") =>
        LET first == B_allocate(atlas, size, debug_assertions)
        IN  /\ ReturnsFullSurface(first)
            /\ \A req \in requests :
                   ReturnsNone(B_allocate(first.atlas, req, debug_assertions))
            /\ LET freed == B_deallocate(first.atlas, first.res[1].id, debug_assertions)
               IN  /\ freed.panic = ""
                   /\ ReturnsFullSurface(B_allocate(freed.atlas, size, debug_assertions))

\* C9: per-item engine with default options: whenever nothing is live,
\* allocate(surface size) succeeds and returns the whole surface
C9_PerItemFullSurface ==
    (engine = "peritem" /\ options = DEFAULT_OPTIONS /\ allocations = {} /\ panicked = "") =>
        ReturnsFullSurface(P_allocate(atlas, size, debug_assertions))

\* the rectangle of an allocate() result, None when there is none
RectOf(res) == IF res = None THEN None ELSE Some(res[1].rectangle)

RECURSIVE SameResults(_, _, _, _)
\* allocators a1 and a2 answer every sequence of at most depth allocate and
\* deallocate calls alike: same rectangles, same None, same panics; live pairs
\* the ids the two handed out for the same call
SameResults(a1, a2, live, depth) ==
    \/ depth = 0
    \/ /\ \A req \in requests :
              LET r1 == Alloc(engine, a1, req, debug_assertions)
                  r2 == Alloc(engine, a2, req, debug_assertions)
              IN  /\ (r1.panic = "") = (r2.panic = "")
                  /\ RectOf(r1.res) = RectOf(r2.res)
                  /\ (r1.panic = "" /\ r2.panic = "") =>
                        SameResults(r1.atlas, r2.atlas,
                                    IF r1.res = None \/ r2.res = None THEN live
                                    ELSE live \cup {<<r1.res[1].id, r2.res[1].id>>},
                                    depth - 1)
       /\ \A p \in live :
              LET d1 == Dealloc(engine, a1, p[1], debug_assertions)
                  d2 == Dealloc(engine, a2, p[2], debug_assertions)
              IN  /\ (d1.panic = "") = (d2.panic = "")
                  /\ (d1.panic = "" /\ d2.panic = "") =>
                        SameResults(d1.atlas, d2.atlas, live \ {p}, depth - 1)

\* C10: both engines, after clear() is_empty() is true and every following
\* sequence of allocate/deallocate calls gives the results a newly constructed
\* allocator of the same size and options gives
C10_ClearIsFresh ==
    (last.op = "clear" /\ panicked = "") =>
        /\ IsEmpty(engine, atlas)
        /\ SameResults(atlas, New(engine, size, options), {}, EquivDepth)

\* per-item engine: three live allocations on two shelves, one of them placed
\* after a deallocate had merged its neighbours
C2_Witness ==
    /\ engine = "peritem" /\ panicked = ""
    /\ Cardinality(allocations) = 3
    /\ ncalls > 3
    /\ Returned
    /\ \E a1 \in allocations : \E a2 \in allocations :
          a1 # a2 /\ a1.rectangle.min.y = a2.rectangle.min.y
    /\ \E a1 \in allocations : \E a2 \in allocations :
          a1.rectangle.min.y # a2.rectangle.min.y

C7_Witness ==
    /\ panicked = "" /\ ncalls >= 3
    /\ last.op = "deallocate" /\ allocations = {}
    /\ last.res[1].rectangle.min = point2(0, 0)
    /\ IsEmpty(engine, atlas)

\* the sizes a caller may ask for: those of the run, an empty width, an empty
\* height, and one more than the surface in either dimension
ProbeSizes ==
    requests \cup { size2(0, 8), size2(8, 0), size2(-1, 8),
                    size2(size.width + 1, 1), size2(1, size.height + 1) }

\* C11: both engines, an allocate that returns None leaves the whole allocator
\* state as it was
C11_FailedAllocateKeepsState ==
    panicked = "" =>
        \A req \in ProbeSizes :
            \E r \in {Alloc(engine, atlas, req, debug_assertions)} :
                ReturnsNone(r) => r.atlas = atlas

\* bucketed engine: the last allocate found no bin, could add no shelf, tried
\* to coalesce with an empty shelf present, and returned None
C11_Witness ==
    /\ engine = "bucketed" /\ panicked = ""
    /\ last.op = "allocate" /\ last.res = None
    /\ Len(atlas.shelves) >= 2
    /\ atlas.available_height < last.requested.height
    /\ atlas.current_column + 1 >= atlas.num_columns
    /\ \E i \in 0 .. Len(atlas.shelves) - 1 :
          /\ B_shelf_is_empty(atlas, i)
          /\ atlas.shelves[i + 1].bin_width >= last.requested.width

\* the request rounded up to the alignment, as the caller counts it
AlignedRequest(req) ==
    size2(adjust_size(options.alignment.width, req.width),
          adjust_size(options.alignment.height, req.height))

\* the largest width and height a request may have, in the caller's
\* orientation: the surface, cut to one column along the shelves' axis in the
\* bucketed engine
LimitWidth ==
    IF engine = "bucketed" /\ ~options.vertical_shelves THEN atlas.column_width
    ELSE size.width
LimitHeight ==
    IF engine = "bucketed" /\ options.vertical_shelves THEN atlas.column_width
    ELSE size.height

TooLarge(req) ==
    \/ SizeIsEmpty(req)
    \/ AlignedRequest(req).width > LimitWidth
    \/ AlignedRequest(req).height > LimitHeight

\* C12: both engines, every option set: allocate returns None for an empty
\* request and for one whose aligned width or height exceeds the surface
\* (the column, in the bucketed engine) in the caller's orientation
C12_OversizeIsNone ==
    panicked = "" =>
        \A req \in ProbeSizes :
            TooLarge(req) =>
                \E r \in {Alloc(engine, atlas, req, debug_assertions)} : ReturnsNone(r)

\* the ids the caller holds for live allocations
LiveIds == { al.id : al \in allocations }

RECURSIVE B_refcount_sum(_, _)
\* the allocations the bucketed engine counts: the refcounts of bins[1 .. n]
B_refcount_sum(b, n) ==
    IF n = 0 THEN 0 ELSE b.bins[n].refcount + B_refcount_sum(b, n - 1)

\* the allocations the allocator itself counts as live
LiveCount ==
    IF engine = "bucketed" THEN B_refcount_sum(atlas, Len(atlas.bins))
    ELSE Cardinality({ i \in 1 .. Len(atlas.items) : atlas.items[i].allocated })

\* C13: both engines: the ids of the live allocations are pairwise distinct:
\* no two allocations the caller holds share an id, and the caller holds as
\* many distinct ids as the allocator counts live allocations
C13_LiveIdsDistinct ==
    panicked = "" =>
        /\ \A a1 \in allocations : \A a2 \in allocations : a1 # a2 => a1.id # a2.id
        /\ Cardinality(LiveIds) = LiveCount

\* bucketed engine: an allocation was placed by coalesce_shelves in an empty
\* bin whose item counter had passed MAX_ITEMS_PER_BIN, next to other live ones
C13_Witness ==
    /\ engine = "bucketed" /\ panicked = ""
    /\ Cardinality(allocations) >= 2
    /\ last.op = "allocate" /\ last.res # None
    /\ atlas.bins[last.res[1].id.bin + 1].item_count > MAX_ITEMS_PER_BIN
    /\ atlas.bins[last.res[1].id.bin + 1].refcount = 1

\* C14: per-item engine: a deallocate with an id that was deallocated before
\* fails the `allocated` assertion, whatever was called in between
C14_PerItemDoubleFreeAsserts ==
    (engine = "peritem" /\ last.op = "deallocate_stale") => panicked = "assert!(allocated)"

\* the two assertions of deallocate_from_bin
B_deallocate_asserts ==
    { "assert_eq!(generation, expected_generation)", "assert!(bin.refcount > 0)" }

\* C15: bucketed engine: a second deallocate with the same id fails one of
\* the two assertions and leaves the allocator state as it was, also while
\* other allocations of the same bin are live
C15_BucketedDoubleFreeAsserts ==
    (engine = "bucketed" /\ panicked = "") =>
        \A f \in stale :
            \E r \in {B_deallocate(atlas, f.al.id, debug_assertions)} :
                r.panic \in B_deallocate_asserts /\ r.atlas = atlas

\* C16: bucketed engine, valid use: the generation in every live id is the
\* current generation of its bin, and that bin's refcount is positive, so
\* deallocate of a live id fails neither assertion
C16_LiveIdsMatchBins ==
    (engine = "bucketed" /\ panicked = "") =>
        \A al \in allocations :
            /\ al.id.bin < Len(atlas.bins)
            /\ atlas.bins[al.id.bin + 1].generation = al.id.generation
            /\ atlas.bins[al.id.bin + 1].refcount > 0
            /\ B_deallocate_from_bin(atlas, al.id).panic = ""

\* an allocation is live in a bin slot that was recycled at least once, next
\* to a live allocation of another bin
C16_Witness ==
    /\ engine = "bucketed" /\ panicked = ""
    /\ \E a1 \in allocations : \E a2 \in allocations :
          /\ a1.id.generation > 0
          /\ a2.id.bin # a1.id.bin
          /\ atlas.bins[a1.id.bin + 1].refcount > 0

\* C17: bucketed engine, no clear(): once the bin slot of a deallocated id
\* was collected and reused by a later shelf, 1 to 255 times, deallocate with
\* that id fails the generation assertion
C17_StaleIdFailsGeneration ==
    (engine = "bucketed" /\ panicked = "") =>
        \A f \in stale :
            (f.reuses >= 1 /\ f.reuses < GEN_MOD) =>
                B_deallocate(atlas, f.al.id, debug_assertions).panic
                    = "assert_eq!(generation, expected_generation)"

\* deallocate was called with an id whose bin slot had been reused, while
\* another allocation was live, and failed the generation assertion
C17_Witness ==
    /\ engine = "bucketed"
    /\ last.op = "deallocate_stale"
    /\ panicked = "assert_eq!(generation, expected_generation)"
    /\ allocations # {}
    /\ atlas.bins[last.res[1].id.bin + 1].generation > last.res[1].id.generation

\* a size and options that with_options is to accept
ValidConstruction ==
    /\ size.width >= 1 /\ size.width <= U16_MAX
    /\ size.height >= 1 /\ size.height <= U16_MAX
    /\ options.alignment.width >= 1 /\ options.alignment.height >= 1

\* C18: both engines: with_options accepts every size within 1 .. 65535 in
\* both dimensions with an alignment of at least 1 in both, and fails an
\* assertion for every other size or alignment
C18_ConstructorChecks ==
    last = NoCall =>
        IF ValidConstruction THEN panicked = "" ELSE panicked = "assertion failed"

\* the run of scenario S3 has made all of its calls
S3Done == Len(ids) = S3Count + 2 /\ S3Live(S3FreedLast) = {}

\* C19: per-item engine, scenario S3 on 256x256: the 56 allocate(32x32)
\* succeed and lie on 7 shelves of 8 items, allocate(70x70) returns None,
\* allocate(64x64) succeeds, and after the last deallocate is_empty() is true
C19_PerItemScenarioS3 ==
    engine = "peritem" =>
        /\ panicked = ""
        /\ \A k \in 1 .. Len(ids) : k # S3Count + 1 => ids[k] # None
        /\ (Len(ids) = S3Count /\ Cardinality(allocations) = S3Count) =>
               /\ Cardinality({ al.rectangle.min.y : al \in allocations }) = 7
               /\ \A al \in allocations :
                      Cardinality({ x \in allocations :
                                      x.rectangle.min.y = al.rectangle.min.y }) = 8
        /\ Len(ids) > S3Count => ids[S3Count + 1] = None
        /\ S3Done => P_is_empty(atlas)

\* the request as allocate sees it after the size check: aligned and in
\* shelf coordinates
ShelfRequest(req) ==
    convert_coordinates(atlas.flip_xy,
                        Wrap16(adjust_size(atlas.alignment.width, req.width)),
                        Wrap16(adjust_size(atlas.alignment.height, req.height)))

RECURSIVE B_bins_of(_, _)
\* the bins of the list that starts at bin_index
B_bins_of(b, bin_index) ==
    IF bin_index = INVALID THEN {}
    ELSE {bin_index} \cup B_bins_of(b, b.bins[bin_index + 1].next)

\* some bin of an existing shelf can take w x h
FitsSomeBin(w, h) ==
    \E i \in 1 .. Len(atlas.shelves) :
        /\ atlas.shelves[i].height >= h
        /\ atlas.shelves[i].bin_width >= w
        /\ \E bi \in B_bins_of(atlas, atlas.shelves[i].first_bin) :
              /\ atlas.bins[bi + 1].free_space >= w
              /\ atlas.bins[bi + 1].item_count < MAX_ITEMS_PER_BIN

\* a shelf can be added for height h
CanAddShelf(h) ==
    /\ atlas.available_height >= h \/ atlas.current_column + 1 < atlas.num_columns
    /\ Len(atlas.shelves) < MAX_SHELF_COUNT
    /\ Len(atlas.bins) < MAX_BIN_COUNT

RECURSIVE RunHeight(_, _)
\* the combined height of the n shelves from index s on
RunHeight(s, n) ==
    IF n = 0 THEN 0 ELSE atlas.shelves[s + n].height + RunHeight(s, n - 1)

\* the n shelves from index s on are a run that can take w x h
IsRun(s, n, w, h) ==
    /\ s + n <= Len(atlas.shelves)
    /\ atlas.shelves[s + 1].bin_width >= w
    /\ \A j \in s .. s + n - 1 :
          /\ atlas.shelves[j + 1].x = atlas.shelves[s + 1].x
          /\ B_shelf_is_empty(atlas, j)
    /\ RunHeight(s, n) >= h

\* the first shelves of the runs of 2 or 3 shelves that can take w x h
RunStarts(w, h) ==
    { s \in 0 .. Len(atlas.shelves) - 1 : IsRun(s, 2, w, h) \/ IsRun(s, 3, w, h) }

\* r is an allocate() that placed its request at the start of the first bin
\* of shelf s
PlacedInFirstBinOf(r, s) ==
    /\ r.panic = "" /\ r.res # None
    /\ r.res[1].id.bin = atlas.shelves[s + 1].first_bin
    /\ <<r.res[1].rectangle.min.x, r.res[1].rectangle.min.y>>
         = convert_coordinates(atlas.flip_xy,
                               atlas.bins[atlas.shelves[s + 1].first_bin + 1].x,
                               atlas.shelves[s + 1].y)

\* C20: bucketed engine: a request that passes the size check, fits no bin of
\* an existing shelf and for which no shelf can be added is placed if and
\* only if 2 or 3 consecutive empty shelves of one column, the first with
\* bin_width >= w, have a combined height >= h; it is then placed in the first
\* bin of the first shelf of the first such run; otherwise allocate returns None
C20_CoalesceIffRun ==
    (engine = "bucketed" /\ panicked = "") =>
        \A req \in requests :
            \A wh \in {ShelfRequest(req)} :
                (/\ ~TooLarge(req)
                 /\ ~FitsSomeBin(wh[1], wh[2])
                 /\ ~CanAddShelf(wh[2])) =>
                    \E r \in {B_allocate(atlas, req, debug_assertions)} :
                        IF RunStarts(wh[1], wh[2]) = {} THEN ReturnsNone(r)
                        ELSE \E s \in RunStarts(wh[1], wh[2]) :
                                /\ \A t \in RunStarts(wh[1], wh[2]) : s <= t
                                /\ PlacedInFirstBinOf(r, s)

\* the shelf that holds the live allocation al
ShelfOf(al) == atlas.shelves[atlas.bins[al.id.bin + 1].shelf + 1]

\* the shelf loop of allocate selects no bin for w x h
SelectsNoBin(w, h) ==
    B_search(atlas, 0, w, h, CanAddShelf(h),
             [shelf |-> NO_SHELF, bin |-> INVALID, best_waste |-> U16_MAX]).bin = INVALID

\* r placed its request with its lower corner at (x, y)
PlacedAt(r, x, y) ==
    r.panic = "" /\ r.res # None /\ r.res[1].rectangle.min = point2(x, y)

\* scenario S4 on a new 64x64 surface of two columns: A and D lie in column 0,
\* B and C in column 1
ScenarioS4 ==
    \E a \in {B_allocate(atlas, size2(24, 46), debug_assertions)} :
      \E b \in {B_allocate(a.atlas, size2(24, 32), debug_assertions)} :
        \E c \in {B_allocate(b.atlas, size2(24, 32), debug_assertions)} :
          \E d \in {B_allocate(c.atlas, size2(24, 8), debug_assertions)} :
            /\ PlacedAt(a, 0, 0) /\ a.res[1].rectangle.max.x <= 32
            /\ PlacedAt(b, 32, 0) /\ b.res[1].rectangle.max.x <= 64
            /\ PlacedAt(c, 32, 32) /\ c.res[1].rectangle.max.x <= 64
            /\ PlacedAt(d, 0, 48) /\ d.res[1].rectangle.max.x <= 32

\* C21: bucketed engine, horizontal shelves, several columns: every shelf
\* starts at a multiple of column_width below the surface width, every live
\* rectangle lies inside the column of its shelf, a request for which no bin is
\* selected and the current column has no room left goes to the start of the
\* next column, a request for which a bin is selected in an earlier column is
\* placed in that column, and scenario S4 places A, D in column 0 and B, C in
\* column 1
C21_Columns ==
    (/\ engine = "bucketed" /\ panicked = ""
     /\ ~options.vertical_shelves /\ atlas.num_columns > 1) =>
        /\ \A i \in 1 .. Len(atlas.shelves) :
               \E k \in 0 .. atlas.num_columns - 1 :
                   atlas.shelves[i].x = k * atlas.column_width
        /\ \A al \in allocations :
               /\ ShelfOf(al).x <= al.rectangle.min.x
               /\ al.rectangle.max.x <= ShelfOf(al).x + atlas.column_width
        /\ \A req \in requests :
               \E r \in {B_allocate(atlas, req, debug_assertions)} :
                   /\ (/\ ~TooLarge(req)
                       /\ SelectsNoBin(req.width, req.height)
                       /\ atlas.available_height < req.height
                       /\ atlas.current_column + 1 < atlas.num_columns
                       /\ Len(atlas.bins) < MAX_BIN_COUNT) =>
                          PlacedAt(r, (atlas.current_column + 1) * atlas.column_width, 0)
                   /\ ~SelectsNoBin(req.width, req.height) =>
                          /\ r.panic = "" /\ r.res # None
                          /\ \E i \in 1 .. Len(atlas.shelves) :
                                /\ r.res[1].rectangle.min.y = atlas.shelves[i].y
                                /\ atlas.shelves[i].x <= r.res[1].rectangle.min.x
                                /\ r.res[1].rectangle.max.x
                                     <= atlas.shelves[i].x + atlas.column_width
        /\ (size = size2(64, 64) /\ atlas = B_with_options(size, options)) => ScenarioS4

\* a request was placed in column 0 after column 1 had been opened, next to a
\* live allocation of column 1
C21_Witness ==
    /\ engine = "bucketed" /\ panicked = "" /\ ~options.vertical_shelves
    /\ atlas.current_column = 1
    /\ last.op = "allocate" /\ last.res # None
    /\ last.res[1].rectangle.max.x <= atlas.column_width
    /\ \E al \in allocations : al.rectangle.min.x >= atlas.column_width
    /\ \E i \in 1 .. Len(atlas.shelves) :
          atlas.shelves[i].x > 0 /\ atlas.shelves[i].first_bin > last.res[1].id.bin

\* the bin of index i is linked to a shelf of b
OnShelf(b, i) ==
    \E k \in 1 .. Len(b.shelves) : i \in B_bins_of(b, b.shelves[k].first_bin)

\* the bin of index i is on the same shelf before and after the step, without
\* having been set up again in between
StaysOnShelf(i) ==
    /\ i < Len(atlas.bins) /\ i < Len(atlas'.bins)
    /\ OnShelf(atlas, i) /\ OnShelf(atlas', i)
    /\ atlas'.bins[i + 1].shelf = atlas.bins[i + 1].shelf
    /\ atlas'.bins[i + 1].generation = atlas.bins[i + 1].generation

\* the step is deallocate(al.id) of a live allocation and has returned
DeallocateStep(al) ==
    /\ panicked = "" /\ panicked' = ""
    /\ last'.op = "deallocate" /\ last'.res = Some(al)
    /\ al \in allocations /\ allocations' = allocations \ {al}

\* the step of C22
C22_Step ==
    engine = "bucketed" =>
        /\ \A al \in allocations :
               DeallocateStep(al) =>
                   /\ atlas'.bins[al.id.bin + 1].refcount
                        = atlas.bins[al.id.bin + 1].refcount - 1
                   /\ atlas'.bins[al.id.bin + 1].item_count
                        = atlas.bins[al.id.bin + 1].item_count
                   /\ atlas'.bins[al.id.bin + 1].refcount > 0 =>
                          atlas'.bins[al.id.bin + 1].free_space
                            = atlas.bins[al.id.bin + 1].free_space
                   /\ atlas'.bins[al.id.bin + 1].refcount = 0 =>
                          atlas'.bins[al.id.bin + 1].free_space
                            = atlas.shelves[atlas.bins[al.id.bin + 1].shelf + 1].bin_width
        /\ (panicked = "" /\ panicked' = "") =>
               \A i \in 0 .. Len(atlas.bins) - 1 :
                   StaysOnShelf(i) =>
                       atlas'.bins[i + 1].item_count >= atlas.bins[i + 1].item_count

\* C22: bucketed engine: a deallocate that leaves the refcount of the bin above
\* 0 leaves the bin's free_space as it was, a deallocate that brings the
\* refcount to 0 sets free_space to the bin_width of the shelf, deallocate
\* leaves item_count as it was, and no call lowers the item_count of a bin that
\* stays on its shelf
C22_SpaceBackWhenBinEmpty == [][C22_Step]_vars

\* a deallocate has left other items live in its bin
C22_Witness ==
    /\ engine = "bucketed" /\ panicked = ""
    /\ last.op = "deallocate"
    /\ last.res[1].id.bin < Len(atlas.bins)
    /\ OnShelf(atlas, last.res[1].id.bin)
    /\ atlas.bins[last.res[1].id.bin + 1].generation = last.res[1].id.generation
    /\ atlas.bins[last.res[1].id.bin + 1].refcount > 0
    /\ atlas.bins[last.res[1].id.bin + 1].item_count
         > atlas.bins[last.res[1].id.bin + 1].refcount
    /\ atlas.bins[last.res[1].id.bin + 1].free_space
         < atlas.shelves[atlas.bins[last.res[1].id.bin + 1].shelf + 1].bin_width

\* there is no shelf or some bin of the last shelf has refcount > 0
TopShelfLive(b) ==
    Len(b.shelves) = 0 \/ ~B_shelf_is_empty(b, Len(b.shelves) - 1)

\* the step of C23
C23_Step ==
    (engine = "bucketed" /\ panicked = "" /\ panicked' = "") =>
        /\ TopShelfLive(atlas')
        /\ Len(atlas'.shelves) < Len(atlas.shelves) =>
              /\ \E al \in allocations : DeallocateStep(al)
              /\ atlas'.shelves = SubSeq(atlas.shelves, 1, Len(atlas'.shelves))
              /\ \A k \in Len(atlas'.shelves) + 1 .. Len(atlas.shelves) :
                    \A i \in B_bins_of(atlas, atlas.shelves[k].first_bin) :
                        atlas.bins[i + 1].refcount
                          = (IF i = last'.res[1].id.bin THEN 1 ELSE 0)

\* C23: bucketed engine: after every allocate and every deallocate that
\* returns there is no shelf or the last shelf has a bin with refcount > 0, so
\* that every consecutive empty shelf at the top is gone; the list of shelves
\* gets shorter only in a deallocate, only by losing its last shelves, and
\* every bin of a shelf that goes has refcount 0 once the item is given back
C23_EmptyTopShelvesRemoved == [][C23_Step]_vars

\* a deallocate has removed the shelf of its item and the shelf below it, and
\* has stopped at a shelf that holds a live item
C23_Witness ==
    /\ engine = "bucketed" /\ panicked = ""
    /\ ~options.vertical_shelves /\ atlas.num_columns = 1
    /\ last.op = "deallocate"
    /\ Len(atlas.shelves) > 0
    /\ ~B_shelf_is_empty(atlas, Len(atlas.shelves) - 1)
    /\ atlas.shelves[Len(atlas.shelves)].y + atlas.shelves[Len(atlas.shelves)].height
         < last.res[1].rectangle.min.y

RECURSIVE ItemsTile(_, _, _, _)
\* the items walked from item_idx via next start at x, each starts where the
\* one before ends, and the walk ends at the surface width within n steps
ItemsTile(a, item_idx, x, n) ==
    IF item_idx = NONE THEN x = a.size.width
    ELSE /\ n > 0 /\ item_idx < Len(a.items)
         /\ a.items[item_idx + 1].x = x
         /\ ItemsTile(a, a.items[item_idx + 1].next, x + a.items[item_idx + 1].width, n - 1)

RECURSIVE ShelvesTile(_, _, _, _)
\* the same for the shelves walked from shelf_idx, with the items of each
ShelvesTile(a, shelf_idx, y, n) ==
    IF shelf_idx = NONE THEN y = a.size.height
    ELSE /\ n > 0 /\ shelf_idx < Len(a.shelves)
         /\ a.shelves[shelf_idx + 1].y = y
         /\ ItemsTile(a, a.shelves[shelf_idx + 1].first_item, 0, Len(a.items))
         /\ ShelvesTile(a, a.shelves[shelf_idx + 1].next,
                        y + a.shelves[shelf_idx + 1].height, n - 1)

RECURSIVE ItemsLinked(_, _, _, _)
\* every item walked from item_idx via next has the item before it as prev
\* (NONE for the first), and the walk ends within n steps
ItemsLinked(a, item_idx, prev_item_idx, n) ==
    IF item_idx = NONE THEN TRUE
    ELSE /\ n > 0 /\ item_idx < Len(a.items)
         /\ a.items[item_idx + 1].prev = prev_item_idx
         /\ ItemsLinked(a, a.items[item_idx + 1].next, item_idx, n - 1)

RECURSIVE ShelvesLinked(_, _, _, _)
\* the same for the shelves walked from shelf_idx, with the items of each
ShelvesLinked(a, shelf_idx, prev_shelf_idx, n) ==
    IF shelf_idx = NONE THEN TRUE
    ELSE /\ n > 0 /\ shelf_idx < Len(a.shelves)
         /\ a.shelves[shelf_idx + 1].prev = prev_shelf_idx
         /\ ItemsLinked(a, a.shelves[shelf_idx + 1].first_item, NONE, Len(a.items))
         /\ ShelvesLinked(a, a.shelves[shelf_idx + 1].next, shelf_idx, n - 1)

\* C25: per-item engine: the shelf list and every shelf's item list are
\* doubly-linked lists: the first element has prev = NONE, a.next = b implies
\* b.prev = a, and a walk along next ends (no cycle)
C25_ListsDoublyLinked ==
    engine = "peritem" =>
        ShelvesLinked(atlas, atlas.first_shelf, NONE, Len(atlas.shelves))

\* after a deallocate, with a shelf and an item that merges have unlinked, at
\* least two shelves linked and two items on one of them
C25_Witness ==
    /\ engine = "peritem" /\ panicked = ""
    /\ last.op = "deallocate"
    /\ atlas.free_shelves # NONE /\ atlas.free_items # NONE
    /\ atlas.shelves[atlas.first_shelf + 1].next # NONE
    /\ \E k \in 1 .. Len(atlas.shelves) :
          /\ ~atlas.shelves[k].is_empty
          /\ atlas.items[atlas.shelves[k].first_item + 1].next # NONE

RECURSIVE NoAdjacentFreeItems(_, _, _, _)
\* no item walked from item_idx is free next to a free item
NoAdjacentFreeItems(a, item_idx, prev_allocated, n) ==
    IF item_idx = NONE \/ n = 0 THEN TRUE
    ELSE /\ prev_allocated \/ a.items[item_idx + 1].allocated
         /\ NoAdjacentFreeItems(a, a.items[item_idx + 1].next,
                                a.items[item_idx + 1].allocated, n - 1)

RECURSIVE AnyAllocated(_, _, _)
\* some item walked from item_idx is allocated
AnyAllocated(a, item_idx, n) ==
    IF item_idx = NONE \/ n = 0 THEN FALSE
    ELSE \/ a.items[item_idx + 1].allocated
         \/ AnyAllocated(a, a.items[item_idx + 1].next, n - 1)

\* an empty shelf: one item, free, from 0 to the width of the surface
OneFreeItem(a, item_idx) ==
    /\ ~a.items[item_idx + 1].allocated
    /\ a.items[item_idx + 1].next = NONE
    /\ a.items[item_idx + 1].x = 0
    /\ a.items[item_idx + 1].width = a.size.width

RECURSIVE ShelvesSettled(_, _, _, _)
\* the shelves walked from shelf_idx: none is empty after an empty one, the
\* flag of each says whether it has no allocated item, and the items of each
\* are settled
ShelvesSettled(a, shelf_idx, prev_empty, n) ==
    IF shelf_idx = NONE \/ n = 0 THEN TRUE
    ELSE /\ ~(prev_empty /\ a.shelves[shelf_idx + 1].is_empty)
         /\ a.shelves[shelf_idx + 1].is_empty
              <=> ~AnyAllocated(a, a.shelves[shelf_idx + 1].first_item, Len(a.items))
         /\ a.shelves[shelf_idx + 1].is_empty =>
                OneFreeItem(a, a.shelves[shelf_idx + 1].first_item)
         /\ NoAdjacentFreeItems(a, a.shelves[shelf_idx + 1].first_item, TRUE, Len(a.items))
         /\ ShelvesSettled(a, a.shelves[shelf_idx + 1].next,
                           a.shelves[shelf_idx + 1].is_empty, n - 1)

\* C26: per-item engine, after every allocate and deallocate: no two adjacent
\* items of a shelf are both free, no two adjacent shelves are both empty,
\* is_empty of a shelf is true exactly when none of its items is allocated,
\* and an empty shelf has exactly one item, free and as wide as the surface
C26_FreeSpaceMerged ==
    engine = "peritem" =>
        ShelvesSettled(atlas, atlas.first_shelf, FALSE, Len(atlas.shelves))

\* a deallocate has emptied a shelf that lies between two shelves in use
C26_Witness ==
    /\ engine = "peritem" /\ panicked = ""
    /\ last.op = "deallocate"
    /\ \E k \in 1 .. Len(atlas.shelves) :
          /\ atlas.shelves[k].is_empty
          /\ atlas.shelves[k].y = last.res[1].rectangle.min.y
          /\ atlas.shelves[k].prev # NONE /\ atlas.shelves[k].next # NONE
          /\ ~atlas.shelves[atlas.shelves[k].prev + 1].is_empty
          /\ ~atlas.shelves[atlas.shelves[k].next + 1].is_empty
          /\ atlas.shelves[atlas.shelves[k].prev + 1].next = k - 1

RECURSIVE LinkedShelves(_, _, _)
\* the indices of the shelves walked from shelf_idx via next
LinkedShelves(a, shelf_idx, n) ==
    IF shelf_idx = NONE \/ n = 0 THEN {}
    ELSE {shelf_idx} \cup LinkedShelves(a, a.shelves[shelf_idx + 1].next, n - 1)

\* the shelf k of the list comes right after an empty shelf
AfterEmptyShelf(a, k) ==
    /\ a.shelves[k + 1].prev # NONE
    /\ a.shelves[a.shelves[k + 1].prev + 1].is_empty

\* C27 as stated: per-item engine: no shelf in use comes right after an empty
\* shelf in the shelf list
C27_NoShelfInUseAfterEmpty ==
    (engine = "peritem" /\ panicked = "") =>
        \A k \in LinkedShelves(atlas, atlas.first_shelf, Len(atlas.shelves)) :
            ~atlas.shelves[k + 1].is_empty => ~AfterEmptyShelf(atlas, k)

\* C27, amended: per-item engine: no empty shelf comes right after an empty
\* shelf in the shelf list; a shelf in use may come right after an empty one
C27_NoEmptyShelfAfterEmpty ==
    engine = "peritem" =>
        \A k \in LinkedShelves(atlas, atlas.first_shelf, Len(atlas.shelves)) :
            atlas.shelves[k + 1].is_empty => ~AfterEmptyShelf(atlas, k)

\* a deallocate has emptied a shelf that has a shelf in use right after it and
\* an empty shelf further down the list
C27_Witness ==
    /\ engine = "peritem" /\ panicked = ""
    /\ last.op = "deallocate"
    /\ \E k \in LinkedShelves(atlas, atlas.first_shelf, Len(atlas.shelves)) :
          /\ ~atlas.shelves[k + 1].is_empty
          /\ AfterEmptyShelf(atlas, k)
          /\ atlas.shelves[atlas.shelves[k + 1].prev + 1].y
               = (IF options.vertical_shelves THEN last.res[1].rectangle.min.x
                  ELSE last.res[1].rectangle.min.y)
          /\ atlas.shelves[k + 1].next # NONE
          /\ atlas.shelves[atlas.shelves[k + 1].next + 1].is_empty

\* the messages of the assertions of check
CheckAssertions ==
    { "assert!(!shelf.is_empty)",
      "assert!(!self.items[shelf.first_item.index()].allocated)",
      "assert!(self.items[shelf.first_item.index()].next.is_none())",
      "assert_eq!(item.prev, prev_item_idx)",
      "item should be allocated",
      "assert_eq!(accum_w as i32, target_w)",
      "assert_eq!(accum_h as i32, target_h)" }

\* C28: per-item engine: for every construction and every valid sequence of
\* allocate and deallocate calls, no assertion of the check() that ends each
\* mutating call fails
C28_CheckNeverFails ==
    engine = "peritem" => panicked \notin CheckAssertions

\* the aligned request along and across the shelves of the per-item engine
AlignedAlong(req) ==
    convert_coordinates(atlas.flip_xy,
                        adjust_size(atlas.alignment.width, req.width),
                        adjust_size(atlas.alignment.height, req.height))

\* the width w and the bucketed height H of a request
RequestW(req) == AlignedAlong(req)[1]
RequestH(req) == shelf_height_unbounded(AlignedAlong(req)[2])

RECURSIVE ItemsBefore(_, _, _, _)
\* the items walked from item_idx via next before item k is reached
ItemsBefore(a, item_idx, k, n) ==
    IF item_idx = NONE \/ item_idx = k \/ n = 0 THEN {}
    ELSE {item_idx} \cup ItemsBefore(a, a.items[item_idx + 1].next, k, n - 1)

RECURSIVE ShelvesBefore(_, _, _, _)
\* the shelves walked from shelf_idx via next before shelf k is reached
ShelvesBefore(a, shelf_idx, k, n) ==
    IF shelf_idx = NONE \/ shelf_idx = k \/ n = 0 THEN {}
    ELSE {shelf_idx} \cup ShelvesBefore(a, a.shelves[shelf_idx + 1].next, k, n - 1)

\* the items of shelf k
ItemsOf(a, k) == ItemsBefore(a, a.shelves[k + 1].first_item, NONE, Len(a.items))

\* item i is free and wider than w
FitsItem(a, i, w) == ~a.items[i + 1].allocated /\ a.items[i + 1].width > w

\* the shelves a request of width w and bucketed height H may go to
CandidateShelves(a, w, H) ==
    { k \in LinkedShelves(a, a.first_shelf, Len(a.shelves)) :
        /\ a.shelves[k + 1].height >= H
        /\ ~(~a.shelves[k + 1].is_empty /\ a.shelves[k + 1].height > 2 * H)
        /\ \E i \in ItemsOf(a, k) : FitsItem(a, i, w) }

\* k is the first shelf, in list order, of minimum height among the candidates
FirstOfMinimumHeight(a, k, w, H) ==
    /\ k \in CandidateShelves(a, w, H)
    /\ \A t \in CandidateShelves(a, w, H) :
          /\ a.shelves[k + 1].height <= a.shelves[t + 1].height
          /\ t \in ShelvesBefore(a, a.first_shelf, k, Len(a.shelves)) =>
                 a.shelves[k + 1].height < a.shelves[t + 1].height

\* i is the first item of shelf k that is free and wider than w
FirstFittingItem(a, k, i, w) ==
    /\ i \in ItemsOf(a, k) /\ FitsItem(a, i, w)
    /\ \A j \in ItemsBefore(a, a.shelves[k + 1].first_item, i, Len(a.items)) :
          ~FitsItem(a, j, w)

\* r has placed the request at the start of item i of shelf k
PlacedOn(r, k, i) ==
    /\ r.panic = "" /\ r.res # None
    /\ r.res[1].id = i
    /\ r.res[1].rectangle.min
         = point2(convert_coordinates(atlas.flip_xy, atlas.items[i + 1].x,
                                      atlas.shelves[k + 1].y)[1],
                  convert_coordinates(atlas.flip_xy, atlas.items[i + 1].x,
                                      atlas.shelves[k + 1].y)[2])
    /\ r.atlas.items[i + 1].allocated /\ r.atlas.items[i + 1].shelf = k

\* the rule of C29 for the request req in the current state
SelectionRule(req) ==
    \E r \in {P_allocate(atlas, req, debug_assertions)} :
        /\ (r.panic = "" /\ r.res = None)
              <=> CandidateShelves(atlas, RequestW(req), RequestH(req)) = {}
        /\ \A k \in CandidateShelves(atlas, RequestW(req), RequestH(req)) :
              FirstOfMinimumHeight(atlas, k, RequestW(req), RequestH(req)) =>
                  \E i \in ItemsOf(atlas, k) :
                      /\ FirstFittingItem(atlas, k, i, RequestW(req))
                      /\ PlacedOn(r, k, i)

\* C29: per-item engine: allocate places a request of aligned width w and
\* bucketed height H at the first free item wider than w of the first shelf
\* of minimum height among the shelves of height >= H that are not both in
\* use and taller than 2*H and that have such an item, and returns None
\* exactly when there is no such shelf
C29_SelectionRule ==
    (engine = "peritem" /\ panicked = "") =>
        \A req \in requests : SelectionRule(req)

\* the shelf that the search of allocate selects for req, or NONE
SelectedShelf(req) ==
    IF \/ SizeIsEmpty(req)
       \/ adjust_size(atlas.alignment.width, req.width) > atlas.size.width
       \/ adjust_size(atlas.alignment.height, req.height) > atlas.size.height
       \/ debug_assertions /\ shelf_height_overflows(AlignedAlong(req)[2])
    THEN NONE
    ELSE P_search(atlas, atlas.first_shelf, RequestW(req),
                  shelf_height(AlignedAlong(req)[2]), debug_assertions,
                  [height |-> U16_MAX, shelf |-> NONE, item |-> NONE, panic |-> ""]).shelf

\* in b, shelf k has height H and is followed by a new empty shelf that takes
\* the rest of the old shelf, with one free item as wide as the surface, and
\* that is linked before the old successor
SplitOff(b, k, old, H) ==
    /\ b.shelves[k + 1].height = H
    /\ b.shelves[k + 1].next # NONE
    /\ b.shelves[k + 1].next \notin LinkedShelves(atlas, atlas.first_shelf, Len(atlas.shelves))
    /\ \E n \in {b.shelves[k + 1].next} :
          /\ b.shelves[n + 1].y = old.y + H
          /\ b.shelves[n + 1].height = old.height - H
          /\ b.shelves[n + 1].is_empty
          /\ b.shelves[n + 1].prev = k
          /\ b.shelves[n + 1].next = old.next
          /\ old.next # NONE => b.shelves[old.next + 1].prev = n
          /\ OneFreeItem(b, b.shelves[n + 1].first_item)
          /\ b.items[b.shelves[n + 1].first_item + 1].shelf = n
          /\ b.items[b.shelves[n + 1].first_item + 1].prev = NONE

\* in b, no shelf has been created and shelf k has the height it had
NotSplit(b, k, old) ==
    /\ LinkedShelves(b, b.first_shelf, Len(b.shelves))
         = LinkedShelves(atlas, atlas.first_shelf, Len(atlas.shelves))
    /\ Len(b.shelves) = Len(atlas.shelves)
    /\ b.shelves[k + 1].height = old.height
    /\ b.shelves[k + 1].next = old.next

\* the rule of C30 for the request req in the current state
SplitRule(req) ==
    \E k \in {SelectedShelf(req)} :
        k # NONE =>
            \E r \in {P_allocate(atlas, req, debug_assertions)} :
                IF /\ atlas.shelves[k + 1].is_empty
                   /\ atlas.shelves[k + 1].height > RequestH(req) + SHELF_SPLIT_THRESHOLD
                THEN SplitOff(r.atlas, k, atlas.shelves[k + 1], RequestH(req))
                ELSE NotSplit(r.atlas, k, atlas.shelves[k + 1])

\* C30: per-item engine: when the shelf that allocate selects is empty and
\* taller than H + 8, after the call it has height H and is followed by a new
\* empty shelf at y + H of height (old height - H) with one free item as wide
\* as the surface, linked before the old successor; when the selected shelf
\* is in use, or empty with height <= H + 8, no shelf is created and the shelf
\* keeps its height
C30_ShelfSplit ==
    (engine = "peritem" /\ panicked = "") =>
        \A req \in requests : SplitRule(req)

RECURSIVE ItemLayout(_, _, _)
\* (x, width, allocated) of the items walked from item_idx, in list order
ItemLayout(a, item_idx, n) ==
    IF item_idx = NONE \/ n = 0 THEN <<>>
    ELSE <<[x |-> a.items[item_idx + 1].x,
            width |-> a.items[item_idx + 1].width,
            allocated |-> a.items[item_idx + 1].allocated]>>
         \o ItemLayout(a, a.items[item_idx + 1].next, n - 1)

RECURSIVE ShelfLayout(_, _, _)
\* (y, height, is_empty) and the item layout of the shelves walked from
\* shelf_idx, in list order
ShelfLayout(a, shelf_idx, n) ==
    IF shelf_idx = NONE \/ n = 0 THEN <<>>
    ELSE <<[y |-> a.shelves[shelf_idx + 1].y,
            height |-> a.shelves[shelf_idx + 1].height,
            is_empty |-> a.shelves[shelf_idx + 1].is_empty,
            items |-> ItemLayout(a, a.shelves[shelf_idx + 1].first_item, Len(a.items))]>>
         \o ShelfLayout(a, a.shelves[shelf_idx + 1].next, n - 1)

\* the layout of the per-item allocator a, without slot indices and free lists
Layout(a) == ShelfLayout(a, a.first_shelf, Len(a.shelves))

\* deallocate of what r has returned gives back the layout of the current state
GivesLayoutBack(r) ==
    \E d \in {P_deallocate(r.atlas, r.res[1].id)} :
        d.panic = "" /\ Layout(d.atlas) = Layout(atlas)

\* C31: per-item engine: in every reachable state, an allocate that succeeds
\* followed at once by deallocate of the returned id leaves the ordered list of
\* shelves (y, height, is_empty) with, per shelf, the ordered list of items
\* (x, width, allocated) that there was before the allocate
C31_AllocateDeallocateRestores ==
    (engine = "peritem" /\ panicked = "") =>
        \A req \in requests :
            \E r \in {P_allocate(atlas, req, debug_assertions)} :
                (r.panic = "" /\ r.res # None) => GivesLayoutBack(r)

\* a deallocate has just given back a rectangle next to live allocations, and
\* the allocate that returns the same rectangle again splits a shelf and an
\* item, which the deallocate after it merges again
C31_Witness ==
    /\ engine = "peritem" /\ panicked = ""
    /\ last.op = "deallocate"
    /\ allocations # {}
    /\ \E req \in requests :
          \E r \in {P_allocate(atlas, req, debug_assertions)} :
              /\ r.panic = "" /\ r.res # None
              /\ r.res[1].rectangle = last.res[1].rectangle
              /\ Len(Layout(r.atlas)) > Len(Layout(atlas))
              /\ \E k \in 1 .. Len(Layout(atlas)) :
                    Len(Layout(r.atlas)[k].items) > Len(Layout(atlas)[k].items)
              /\ GivesLayoutBack(r)

RECURSIVE ItemWalk(_, _, _)
\* the item slots walked from item_idx via next, as a sequence
ItemWalk(a, item_idx, n) ==
    IF item_idx = NONE \/ n = 0 THEN <<>>
    ELSE <<item_idx>> \o ItemWalk(a, a.items[item_idx + 1].next, n - 1)

RECURSIVE ShelfWalk(_, _, _)
\* the shelf slots walked from shelf_idx via next, as a sequence
ShelfWalk(a, shelf_idx, n) ==
    IF shelf_idx = NONE \/ n = 0 THEN <<>>
    ELSE <<shelf_idx>> \o ShelfWalk(a, a.shelves[shelf_idx + 1].next, n - 1)

RECURSIVE Concat(_, _)
\* the item lists of the shelves of the sequence ks, one after the other
Concat(a, ks) ==
    IF ks = <<>> THEN <<>>
    ELSE ItemWalk(a, a.shelves[Head(ks) + 1].first_item, Len(a.items) + 1)
         \o Concat(a, Tail(ks))

\* the sequence w names every slot 0 .. n - 1 exactly once
EachSlotOnce(w, n) ==
    /\ Len(w) = n
    /\ { w[i] : i \in 1 .. Len(w) } = 0 .. n - 1

\* every slot of items is in the item list of one linked shelf or in the list
\* of free items, every slot of shelves is linked or in the list of free
\* shelves, and every linked item names its shelf
SlotsAccounted(a) ==
    /\ EachSlotOnce(ShelfWalk(a, a.first_shelf, Len(a.shelves) + 1)
                     \o ShelfWalk(a, a.free_shelves, Len(a.shelves) + 1),
                    Len(a.shelves))
    /\ EachSlotOnce(Concat(a, ShelfWalk(a, a.first_shelf, Len(a.shelves) + 1))
                     \o ItemWalk(a, a.free_items, Len(a.items) + 1),
                    Len(a.items))
    /\ \A k \in LinkedShelves(a, a.first_shelf, Len(a.shelves)) :
          \A i \in ItemsOf(a, k) : a.items[i + 1].shelf = k

\* r has grown a vector only after the free list of its kind was used up
ReusesFreeSlots(r) ==
    /\ Len(r.atlas.items) > Len(atlas.items) => r.atlas.free_items = NONE
    /\ Len(r.atlas.shelves) > Len(atlas.shelves) => r.atlas.free_shelves = NONE

\* C32: per-item engine: every slot of the items vector is in the item list of
\* exactly one shelf linked from first_shelf or in the free_items list, every
\* slot of the shelves vector is linked from first_shelf or in the free_shelves
\* list, no slot is in two places, every linked item's shelf field names the
\* shelf whose list holds it, and allocate grows a vector only when the free
\* list of its kind has no slot left
C32_SlotsAccounted ==
    (engine = "peritem" /\ panicked = "") =>
        /\ SlotsAccounted(atlas)
        /\ \A req \in requests :
              \E r \in {P_allocate(atlas, req, debug_assertions)} :
                  r.panic = "" => ReusesFreeSlots(r)

\* a deallocate has put an item slot and a shelf slot on the free lists, and
\* an allocate takes both again without growing a vector
C32_Witness ==
    /\ engine = "peritem" /\ panicked = ""
    /\ last.op = "deallocate"
    /\ atlas.free_items # NONE /\ atlas.free_shelves # NONE
    /\ allocations # {}
    /\ \E req \in requests :
          \E r \in {P_allocate(atlas, req, debug_assertions)} :
              /\ r.panic = "" /\ r.res # None
              /\ Len(r.atlas.items) = Len(atlas.items)
              /\ Len(r.atlas.shelves) = Len(atlas.shelves)
              /\ r.atlas.free_items # atlas.free_items
              /\ r.atlas.free_shelves # atlas.free_shelves

\* shelves i < j (in append order) of the same column
SameColumn(b, i, j) ==
    /\ i \in 1 .. Len(b.shelves) /\ j \in 1 .. Len(b.shelves) /\ i < j
    /\ b.shelves[i].x = b.shelves[j].x

\* C33: bucketed engine: the shelves of one column, in append order, have
\* strictly ascending y and non-decreasing y + height, y + height is at most
\* the height of the surface, and the extents [y, y + height) of two shelves of
\* one column do not overlap, also after coalesce_shelves
C33_ShelvesAscend ==
    (engine = "bucketed" /\ panicked = "") =>
        /\ \A i \in 1 .. Len(atlas.shelves) :
               atlas.shelves[i].y + atlas.shelves[i].height <= atlas.height
        /\ \A i, j \in 1 .. Len(atlas.shelves) :
               SameColumn(atlas, i, j) =>
                   /\ atlas.shelves[i].y < atlas.shelves[j].y
                   /\ atlas.shelves[i].y + atlas.shelves[i].height
                        <= atlas.shelves[j].y + atlas.shelves[j].height
                   /\ \/ atlas.shelves[i].y + atlas.shelves[i].height <= atlas.shelves[j].y
                      \/ atlas.shelves[j].height = 0

\* the highest y + height among the shelves of the current column of b, 0 when
\* the column has no shelf
ColumnTop(b) ==
    LET tops == { b.shelves[i].y + b.shelves[i].height :
                    i \in { k \in 1 .. Len(b.shelves) :
                              b.shelves[k].x = b.current_column * b.column_width } }
    IN  IF tops = {} THEN 0 ELSE CHOOSE t \in tops : \A u \in tops : u <= t

\* C34: bucketed engine: available_height lies in 0 .. height and equals the
\* height of the surface minus the highest y + height among the shelves of the
\* current column, also after garbage collection has stepped back a column;
\* when no allocation is live, available_height is the height of the surface
\* and current_column is 0
C34_AvailableHeight ==
    (engine = "bucketed" /\ panicked = "") =>
        /\ 0 <= atlas.available_height /\ atlas.available_height <= atlas.height
        /\ atlas.available_height = atlas.height - ColumnTop(atlas)
        /\ allocations = {} =>
              atlas.available_height = atlas.height /\ atlas.current_column = 0

\* what the scan of coalesce_shelves finds for req in the current state
ScanFor(req) == B_coalesce_scan(atlas, 0, ShelfRequest(req)[1], ShelfRequest(req)[2])

\* allocate gets as far as coalesce_shelves with req
ReachesCoalesce(req) ==
    /\ ~SizeIsEmpty(req) /\ ~TooLarge(req)
    /\ SelectsNoBin(ShelfRequest(req)[1], ShelfRequest(req)[2])
    /\ ~CanAddShelf(ShelfRequest(req)[2])

\* C35: bucketed engine: in every reachable state and for every request, the
\* scan of coalesce_shelves reads no shelf past the end of the shelf array,
\* although it reads shelves[shelf_index + i].x before it compares
\* shelf_index + i with len
C35_ScanStaysInRange ==
    (engine = "bucketed" /\ panicked = "") =>
        \A req \in requests :
            /\ ScanFor(req).kind # "oob"
            /\ B_allocate(atlas, req, debug_assertions).panic # "index out of bounds"

\* allocate gets to coalesce_shelves while the shelf before the last one is an
\* empty candidate, so that the scan reads the x of the last shelf
C35_Witness ==
    /\ engine = "bucketed" /\ panicked = ""
    /\ Len(atlas.shelves) >= 2
    /\ B_shelf_is_empty(atlas, Len(atlas.shelves) - 2)
    /\ ~B_shelf_is_empty(atlas, Len(atlas.shelves) - 1)
    /\ \E req \in requests :
          /\ ReachesCoalesce(req)
          /\ atlas.shelves[Len(atlas.shelves) - 1].bin_width >= ShelfRequest(req)[1]
          /\ ScanFor(req).kind = "none"

\* the extent of the live allocation al along its shelf
AlongShelf(al) ==
    <<convert_coordinates(atlas.flip_xy, al.rectangle.min.x, al.rectangle.min.y)[1],
      convert_coordinates(atlas.flip_xy, al.rectangle.max.x, al.rectangle.max.y)[1]>>

\* the live allocation al lies inside its bin
InsideBin(al) ==
    /\ atlas.bins[al.id.bin + 1].x <= AlongShelf(al)[1]
    /\ AlongShelf(al)[1] <= AlongShelf(al)[2]
    /\ AlongShelf(al)[2] <= atlas.bins[al.id.bin + 1].x + ShelfOf(al).bin_width

\* C36: bucketed engine, every option set: the assertion of alloc_from_bin
\* never fails, the free_space of a bin never underflows (it stays within the
\* bin_width of its shelf), and every placement lies inside its bin
C36_BinHasRoom ==
    engine = "bucketed" =>
        /\ panicked # "debug_assert!(bin.free_space >= width)"
        /\ panicked = "" =>
              /\ \A k \in 1 .. Len(atlas.shelves) :
                    \A bi \in B_bins_of(atlas, atlas.shelves[k].first_bin) :
                        atlas.bins[bi + 1].free_space <= atlas.shelves[k].bin_width
              /\ \A al \in allocations : InsideBin(al)

\* the bins of b that are linked in the bin list of a shelf
LinkedBins(b) ==
    UNION { B_bins_of(b, b.shelves[k].first_bin) : k \in 1 .. Len(b.shelves) }

\* the space taken in bin bi of b: bin_width - free_space, nothing for a slot
\* that is not in use
UsedSpace(b, bi) ==
    IF bi < Len(b.bins) /\ bi \in LinkedBins(b) /\ b.bins[bi + 1].refcount > 0
    THEN b.shelves[b.bins[bi + 1].shelf + 1].bin_width - b.bins[bi + 1].free_space
    ELSE 0

\* the width, along the shelf, that the call just made placed in bin bi
PlacedWidth(bi) ==
    IF last'.op = "allocate" /\ last'.res # None /\ last'.res[1].id.bin = bi
    THEN convert_coordinates(atlas'.flip_xy, last'.res[1].rectangle.max.x,
                             last'.res[1].rectangle.max.y)[1]
         - convert_coordinates(atlas'.flip_xy, last'.res[1].rectangle.min.x,
                               last'.res[1].rectangle.min.y)[1]
    ELSE 0

\* the counters and links of the bins agree with the live allocations
BinsAccounted ==
    /\ \A bi \in LinkedBins(atlas) :
          /\ atlas.bins[bi + 1].refcount
                = Cardinality({ al \in allocations : al.id.bin = bi })
          /\ atlas.bins[bi + 1].refcount <= atlas.bins[bi + 1].item_count
          /\ atlas.bins[bi + 1].refcount = 0 =>
                atlas.bins[bi + 1].free_space
                    = atlas.shelves[atlas.bins[bi + 1].shelf + 1].bin_width
    /\ \A al \in allocations : al.id.bin \in LinkedBins(atlas)
    /\ \A k \in 1 .. Len(atlas.shelves) :
          \A bi \in B_bins_of(atlas, atlas.shelves[k].first_bin) :
              atlas.bins[bi + 1].shelf = k - 1
    /\ LinkedBins(atlas) \cap B_free_bins(atlas, atlas.first_unallocated_bin) = {}

\* a call adds the width it places to the space taken in its bin, and changes
\* the space taken in no other bin that stays in use
SpaceStep ==
    (engine = "bucketed" /\ panicked' = "") =>
        \A bi \in LinkedBins(atlas') :
            atlas'.bins[bi + 1].refcount > 0 =>
                UsedSpace(atlas', bi) = UsedSpace(atlas, bi) + PlacedWidth(bi)

\* C37: bucketed engine, valid use: the refcount of each bin is the number of
\* live allocations whose id names it and is at most item_count, bin_width -
\* free_space is the sum of the widths placed in the bin since its refcount
\* was last 0, every bin of a shelf's list names that shelf, and no bin is both
\* in a shelf's list and in the free-bin list
C37_BinsAccounted ==
    /\ []((engine = "bucketed" /\ panicked = "") => BinsAccounted)
    /\ [][SpaceStep]_vars

\* the call just made added a shelf for a request that does not fit the height
\* left in the current column, while another column is left
NeedsFiller ==
    /\ engine = "bucketed" /\ panicked' = ""
    /\ last'.op = "allocate" /\ last'.res # None
    /\ Len(atlas'.shelves) > Len(atlas.shelves)
    /\ atlas.available_height # 0
    /\ atlas.available_height < ShelfRequest(last'.requested)[2]
    /\ atlas.current_column + 1 < atlas.num_columns

\* the shelf pushed first by the call just made, when it pushed two
Filler == atlas'.shelves[Len(atlas.shelves) + 1]

\* the call just made pushed a filler shelf of exactly the height that was
\* left in the current column, then the new shelf at the top of the next column
FillerPushed ==
    /\ Len(atlas'.shelves) = Len(atlas.shelves) + 2
    /\ SubSeq(atlas'.shelves, 1, Len(atlas.shelves)) = atlas.shelves
    /\ Filler.height = atlas.available_height
    /\ Filler.y = atlas.height - atlas.available_height
    /\ Filler.x = atlas.current_column * atlas.column_width
    /\ atlas'.current_column = atlas.current_column + 1
    /\ atlas'.shelves[Len(atlas.shelves) + 2].y = 0
    /\ atlas'.shelves[Len(atlas.shelves) + 2].x
          = (atlas.current_column + 1) * atlas.column_width

\* current_column grows only from a state, or past a filler shelf, that leaves
\* available_height = 0 in the current column
AdvancesAtZero ==
    (engine = "bucketed" /\ panicked' = ""
     /\ atlas'.current_column > atlas.current_column) =>
        IF atlas.available_height = 0
        THEN atlas'.current_column = atlas.current_column + 1
        ELSE NeedsFiller /\ FillerPushed

\* the requests of the caller that the next call would place in the filler
\* shelf just pushed
FitsFiller ==
    { req \in requests :
        \E r \in {B_allocate(atlas', req, debug_assertions)} :
            /\ r.panic = "" /\ r.res # None
            /\ r.res[1].id.bin \in B_bins_of(r.atlas, Filler.first_bin)
            /\ r.atlas.shelves[Len(atlas.shelves) + 1] = Filler }

\* the filler shelf just pushed takes no allocation: neither the one of this
\* call nor one of the next call
NothingInFiller ==
    /\ last'.res[1].id.bin \notin B_bins_of(atlas', Filler.first_bin)
    /\ FitsFiller = {}

\* the filler shelf just pushed is a shelf like any other: its bins are empty
\* and span the column, and what the next call places in it lies inside it
FillerIsShelf ==
    /\ B_bins_of(atlas', Filler.first_bin) # {}
    /\ \A bi \in B_bins_of(atlas', Filler.first_bin) :
          /\ atlas'.bins[bi + 1].refcount = 0
          /\ atlas'.bins[bi + 1].free_space = Filler.bin_width
          /\ atlas'.bins[bi + 1].shelf = Len(atlas.shelves)
    /\ \A req \in FitsFiller :
          \E r \in {B_allocate(atlas', req, debug_assertions)} :
              /\ ShelfRequest(req)[2] <= Filler.height
              /\ Filler.y <= convert_coordinates(atlas'.flip_xy,
                                 r.res[1].rectangle.min.x, r.res[1].rectangle.min.y)[2]
              /\ convert_coordinates(atlas'.flip_xy,
                     r.res[1].rectangle.max.x, r.res[1].rectangle.max.y)[2]
                    <= Filler.y + Filler.height

C38_Step ==
    /\ AdvancesAtZero
    /\ NeedsFiller => (FillerPushed /\ NothingInFiller)

C38_StepAmended ==
    /\ AdvancesAtZero
    /\ NeedsFiller => (FillerPushed /\ FillerIsShelf)

\* C38: bucketed engine, num_columns > 1: current_column is advanced only
\* where available_height is 0; a request that does not fit the height left
\* in the current column first pushes a filler shelf of exactly that height;
\* no allocation is ever placed in a filler shelf
C38_FillerTakesNothing == [][C38_Step]_vars

\* C38, amended: current_column is advanced only where available_height is 0;
\* a request that does not fit the height left in the current column first
\* pushes a filler shelf of exactly that height; the filler shelf has empty
\* bins like any new shelf, and a later request that fits it is placed in it,
\* inside its extent
C38_FillerIsShelf == [][C38_StepAmended]_vars

\* the allocation D of the test `columns` is live in the filler shelf (y = 48,
\* height 16) that closed column 0 when B opened column 1
C38_Witness ==
    /\ engine = "bucketed" /\ panicked = ""
    /\ atlas.num_columns = 2 /\ atlas.height = 64
    /\ \E al \in allocations :
          /\ al.rectangle.min = [x |-> 0, y |-> 48]
          /\ ShelfOf(al).y = 48 /\ ShelfOf(al).height = 16
    /\ \E al \in allocations : ShelfOf(al).x = atlas.column_width

\* the panics of a debug build on 16-bit arithmetic that leaves its range
OverflowPanics ==
    { "attempt to add with overflow", "attempt to subtract with overflow",
      "attempt to multiply with overflow", "arithmetic overflow" }

\* C39: both engines, every accepted surface size, every request that passes
\* the size check: the 16-bit arithmetic of allocate stays in range (the
\* rounding of shelf_height, height * 2 in the per-item shelf filter, height -
\* available_height and x + width), so that no call of a debug build panics on
\* an overflow
C39_ArithmeticInRange ==
    /\ panicked \notin OverflowPanics
    /\ panicked = "" =>
          \A req \in requests :
              Alloc(engine, atlas, req, TRUE).panic \notin OverflowPanics

====
